---- MODULE Spec2Model ----
(***************************************************************************)
(* A model of the Danawa crawler (seojaehong1/crawlerV6).                  *)
(*                                                                         *)
(*   SpecScan      the discovery pass: run_async_scan and its concurrent   *)
(*                 process_product_page tasks (pattern_learn_final.py)     *)
(*   SpecLinks     the two link collectors, applied to a listing DOM       *)
(*   SpecPaginate  the two pagination controllers, one browser call a step *)
(*   SpecPrice     extract_price_range and the price cells of a record     *)
(*   SpecCrawl     the full crawl: crawl_category (crawl_stroller.py)      *)
(*   SpecNormalize the attribute normalizer of crawl_category              *)
(*   SpecExtract   extract_specs_from_detail, one table row a step         *)
(*   SpecTrend     extract_price_trend, one period control a step          *)
(*   SpecImages    add_images_to_csv (add_images_to_csv.py), a row a step  *)
(*   SpecCrawlFair SpecCrawl with its steps taken while one is enabled     *)
(*   SpecRuns      a run of either orchestrator                            *)
(*                                                                         *)
(* Every specification moves its own variables and leaves the others at    *)
(* their idle values.                                                      *)
(***************************************************************************)
EXTENDS Integers, Sequences, FiniteSets, TLC

(***************************************************************************)
(* Bounds of the model.                                                    *)
(***************************************************************************)
\* asyncio.Semaphore(CONCURRENT_TABS): the size of the admission gate.  The
\* source configures 15 (pattern_learn_final.py:12); the gate is checked here
\* with fewer slots than a listing page has links, so that tasks do queue.
CONCURRENT_TABS == 1
\* the most links collect_links_on_page finds on one listing page
MaxLinks == 2
\* the most anchors of a listing DOM
MaxAnchors == 2
\* the largest max_per_page (0 stands for None: no cap)
MaxCap == 2
\* the listing has the pages 1..MaxListing
MaxListing == 3
\* the largest --pages value
MaxPages == 2
\* the largest --max-total-items value (0 stands for None: no cap)
MaxTotalItems == 2
\* the largest --delay-ms value, in milliseconds
MaxDelay == 1
\* checkmark keys are named by their lexicographic rank, 1..NumKeys
NumKeys == 2
Keys == 1..NumKeys
TaskIds == 1..MaxLinks

Range(s) == {s[i] : i \in DOMAIN s}
Min(a, b) == IF a <= b THEN a ELSE b

VARIABLES
    \* ---- run_async_scan ------------------------------------------------
    spc,                 \* where run_async_scan is
    max_pages,           \* argument
    max_total_items,     \* argument, 0 for None
    page_idx,            \* loop variable of "for page_idx in range(1, max_pages + 1)"
    total_scanned,
    all_checkmark_keys,
    sem,                 \* free slots of the asyncio.Semaphore
    task,                \* the process_product_page coroutines of the current gather
    browser_open,
    list_page_open,
    mapping_file,        \* what json.dump wrote, <<>> while nothing is written
    raisedBy,            \* whose exception left run_async_scan
    \* ---- the link collectors --------------------------------------------
    lpc,                 \* "idle", "call" or "returned"
    collector,           \* the collector that is called
    dom,                 \* the anchors of the listing page, in document order
    max_per_page,        \* argument, 0 for None
    links,               \* the list returned
    consulted,           \* the selectors whose elements were read
    \* ---- the pagination controllers -------------------------------------
    ppc,                 \* where the controller is
    controller,          \* the controller that is called
    page_num,            \* argument: the target page
    listing,             \* the page the listing shows
    plog,                \* the browser calls of this call, with their outcome
    presult,             \* what the call returned: "none", "True" or "False"
    pcalls,              \* the calls made so far
    pfirst,              \* the first call: what it returned, and its browser calls
    pstart,              \* the page the listing showed when this call began
    \* ---- extract_price_range and the price cells of the record ----------
    xpc,                 \* where the extraction is
    price_items,         \* the merchant price items of the detail page
    min_input,           \* the input[id^='min_price'] of the page
    max_input,           \* the input[id^='max_price'] of the page
    idx,                 \* loop variable of "for idx in range(count)"
    prices,
    min_price,           \* <<>> for None, <<n>> for the integer n
    max_price,
    row,                 \* the price cells of the record appended to all_rows
    \* ---- crawl_category --------------------------------------------------
    cpc,                 \* where crawl_category is
    pattern_json,        \* the file of argument pattern_json: how it can be read
    crawl_max_pages,     \* argument max_pages
    crawl_max_total_items,  \* argument max_total_items, 0 for None
    page_index,          \* loop variable of "for page_index in range(max_pages)"
    product_links,
    link_idx,            \* the position of "link" in product_links
    all_rows,
    shown,               \* the listing page the listing tab shows
    detail_page_open,
    crawl_browser_open,
    output_csv,          \* <<>> while nothing is written, <<rows>> afterwards
    advance_result,      \* what the last paginate_category call for the next
                         \* listing page returned: "none", "True" or "False"
    base_delay_ms,       \* argument
    slept,               \* the last human_delay(base_delay_ms) since the last
                         \* detail_page.goto: <<>> for none, else <<its sleep>>
    \* ---- the attribute normalizer ----------------------------------------
    npc,                 \* where the normalizer is
    checkmark_items,     \* what load_pattern_from_json returned
    category_mapping,
    specs,               \* what extract_specs_from_detail returned, in dict order
    spec_idx,            \* the entries of specs that were processed
    spec_parts,
    certification_items,
    certification_info_items,
    registration_date,
    detail_info,
    \* ---- extract_specs_from_detail ---------------------------------------
    epc,                 \* where extract_specs_from_detail is
    tr,                  \* the table row processed last: its th and td texts
    tr_count,            \* the rows of all_tr_elements processed
    page_specs,          \* the dict specs of extract_specs_from_detail
    \* ---- extract_price_trend ---------------------------------------------
    tpc,                 \* where extract_price_trend is
    period_items,        \* the period controls of the page, in document order
    period_idx,          \* loop variable idx of "for idx in range(count)"
    clicked,             \* the period controls item.click was called on
    trend_data,          \* the keys of the dict trend_data
    trend_raised,        \* the call whose exception ended the function
    \* ---- add_images_to_csv -----------------------------------------------
    ipc,                 \* where add_images_to_csv is
    fieldnames,          \* the columns of input_file, in the file's order
    input_rows,          \* the rows of input_file, in the file's order
    rows,                \* the list rows: a dict per row, a function on its keys
    row_idx,             \* the rows of "for idx, row in enumerate(rows, 1)" done
    visited,             \* the rows (by position) whose URL page.goto was called on
    output_file          \* <<>> while nothing is written, <<what was written>> after

scanVars == <<spc, max_pages, max_total_items, page_idx, total_scanned,
              all_checkmark_keys, sem, task, browser_open, list_page_open,
              mapping_file, raisedBy>>

linkVars == <<lpc, collector, dom, max_per_page, links, consulted>>

pagVars == <<ppc, controller, page_num, listing, plog, presult, pcalls, pfirst, pstart>>

priceVars == <<xpc, price_items, min_input, max_input, idx, prices, min_price,
               max_price, row>>

\* the state of the full crawl's handling of one detail page
crawlVars == <<cpc, pattern_json, crawl_max_pages, crawl_max_total_items, page_index,
               product_links, link_idx, all_rows, shown, detail_page_open,
               crawl_browser_open, output_csv, advance_result, base_delay_ms, slept>>

normVars == <<npc, checkmark_items, category_mapping, specs, spec_idx, spec_parts,
              certification_items, certification_info_items, registration_date,
              detail_info>>

extractVars == <<epc, tr, tr_count, page_specs>>

\* the state of the other functions that read a page
trendVars == <<tpc, period_items, period_idx, clicked, trend_data, trend_raised>>

imageVars == <<ipc, fieldnames, input_rows, rows, row_idx, visited, output_file>>

pageVars == <<extractVars, trendVars, imageVars>>

detailVars == <<priceVars, crawlVars, normVars, pageVars>>

vars == <<scanVars, linkVars, pagVars, detailVars>>

ScanIdle ==
    /\ spc = "idle"
    /\ max_pages = 0
    /\ max_total_items = 0
    /\ page_idx = 0
    /\ total_scanned = 0
    /\ all_checkmark_keys = {}
    /\ sem = 0
    /\ task = <<>>
    /\ browser_open = FALSE
    /\ list_page_open = FALSE
    /\ mapping_file = <<>>
    /\ raisedBy = "nobody"

LinksIdle ==
    /\ lpc = "idle"
    /\ collector = "none"
    /\ dom = <<>>
    /\ max_per_page = 0
    /\ links = <<>>
    /\ consulted = {}

PaginateIdle ==
    /\ ppc = "idle"
    /\ controller = "none"
    /\ page_num = 0
    /\ listing = 0
    /\ plog = <<>>
    /\ presult = "none"
    /\ pcalls = 0
    /\ pfirst = [result |-> "none", plog |-> <<>>]
    /\ pstart = 0

PriceIdle ==
    /\ xpc = "idle"
    /\ price_items = <<>>
    /\ min_input = [kind |-> "missing", text |-> <<>>]
    /\ max_input = [kind |-> "missing", text |-> <<>>]
    /\ idx = 0
    /\ prices = <<>>
    /\ min_price = <<>>
    /\ max_price = <<>>
    /\ row = <<>>

CrawlIdle ==
    /\ cpc = "idle"
    /\ pattern_json = "none"
    /\ advance_result = "none"
    /\ base_delay_ms = 0
    /\ slept = <<>>
    /\ crawl_max_pages = 0
    /\ crawl_max_total_items = 0
    /\ page_index = 0
    /\ product_links = <<>>
    /\ link_idx = 0
    /\ all_rows = <<>>
    /\ shown = 0
    /\ detail_page_open = FALSE
    /\ crawl_browser_open = FALSE
    /\ output_csv = <<>>

NormIdle ==
    /\ npc = "idle"
    /\ checkmark_items = <<>>
    /\ category_mapping = <<>>
    /\ specs = <<>>
    /\ spec_idx = 0
    /\ spec_parts = <<>>
    /\ certification_items = <<>>
    /\ certification_info_items = <<>>
    /\ registration_date = <<>>
    /\ detail_info = <<>>

ExtractIdle ==
    /\ epc = "idle"
    /\ tr = [ths |-> <<>>, tds |-> <<>>]
    /\ tr_count = 0
    /\ page_specs = <<>>

TrendIdle ==
    /\ tpc = "idle"
    /\ period_items = <<>>
    /\ period_idx = 0
    /\ clicked = {}
    /\ trend_data = {}
    /\ trend_raised = "none"

ImagesIdle ==
    /\ ipc = "idle"
    /\ fieldnames = <<>>
    /\ input_rows = <<>>
    /\ rows = <<>>
    /\ row_idx = 0
    /\ visited = {}
    /\ output_file = <<>>

PageIdle == ExtractIdle /\ TrendIdle /\ ImagesIdle

DetailIdle == PriceIdle /\ CrawlIdle /\ NormIdle /\ PageIdle

(***************************************************************************)
(* pattern_learn_final.py: process_product_page                            *)
(***************************************************************************)
NoTask == [pc |-> "none", page |-> FALSE, found_keys |-> <<>>]
NewTask == [pc |-> "acquire", page |-> FALSE, found_keys |-> <<>>]

\* what the page.evaluate of lines 55-88 returns: the keys of the rows with a
\* checkmark, here for a detail page with no such row or with one
KeyLists == {<<>>} \cup {<<k>> : k \in Keys}

TaskFrame == UNCHANGED <<spc, max_pages, max_total_items, page_idx, total_scanned,
                         all_checkmark_keys, browser_open, list_page_open,
                         mapping_file, raisedBy, linkVars, pagVars, detailVars>>

\* the coroutines run while the event loop runs: until the run has ended
LoopRunning == spc \notin {"done", "aborted"}

\* "async with sem": asyncio's semaphore is first come first served, and the
\* coroutines of one gather first run in the order they were created
process_product_page_acquire(t) ==
    /\ LoopRunning
    /\ task[t].pc = "acquire"
    /\ sem > 0
    /\ \A u \in TaskIds : u < t => task[u].pc # "acquire"
    /\ sem' = sem - 1
    /\ task' = [task EXCEPT ![t].pc = "new_page"]
    /\ TaskFrame

\* leaving "async with sem" with an exception: the slot is released
TaskRaises(t, pageStays) ==
    /\ sem' = sem + 1
    /\ task' = [task EXCEPT ![t].pc = "failed", ![t].page = pageStays]

\* page = await context.new_page()
process_product_page_new_page(t) ==
    /\ LoopRunning
    /\ task[t].pc = "new_page"
    /\ \/ /\ task' = [task EXCEPT ![t].pc = "route", ![t].page = TRUE]
          /\ sem' = sem
       \/ TaskRaises(t, FALSE)
    /\ TaskFrame

\* await page.route(...): before the try, so a failure leaves the page open
process_product_page_route(t) ==
    /\ LoopRunning
    /\ task[t].pc = "route"
    /\ \/ /\ task' = [task EXCEPT ![t].pc = "goto"]
          /\ sem' = sem
       \/ TaskRaises(t, task[t].page)
    /\ TaskFrame

\* await page.goto(link, ..., timeout=15000); "except Exception: pass"
process_product_page_goto(t) ==
    /\ LoopRunning
    /\ task[t].pc = "goto"
    /\ \/ task' = [task EXCEPT ![t].pc = "tab"]
       \/ task' = [task EXCEPT ![t].pc = "close"]
    /\ sem' = sem
    /\ TaskFrame

\* the detail-tab click, lines 32-46: whatever it raises is passed over
process_product_page_tab(t) ==
    /\ LoopRunning
    /\ task[t].pc = "tab"
    /\ task' = [task EXCEPT ![t].pc = "wait"]
    /\ sem' = sem
    /\ TaskFrame

\* await page.wait_for_load_state(...); await asyncio.sleep(0.5)
process_product_page_wait(t) ==
    /\ LoopRunning
    /\ task[t].pc = "wait"
    /\ \/ task' = [task EXCEPT ![t].pc = "evaluate"]
       \/ task' = [task EXCEPT ![t].pc = "close"]
    /\ sem' = sem
    /\ TaskFrame

\* found_keys = await page.evaluate(...)
process_product_page_evaluate(t) ==
    /\ LoopRunning
    /\ task[t].pc = "evaluate"
    /\ \/ \E ks \in KeyLists :
             task' = [task EXCEPT ![t].pc = "close", ![t].found_keys = ks]
       \/ task' = [task EXCEPT ![t].pc = "close"]
    /\ sem' = sem
    /\ TaskFrame

\* finally: await page.close(); then the slot is released and found_keys
\* returned.  A close that raises leaves the page in either state.
process_product_page_close(t) ==
    /\ LoopRunning
    /\ task[t].pc = "close"
    /\ \/ /\ task' = [task EXCEPT ![t].pc = "done", ![t].page = FALSE]
          /\ sem' = sem + 1
       \/ \E stays \in BOOLEAN : TaskRaises(t, stays)
    /\ TaskFrame

process_product_page(t) ==
    \/ process_product_page_acquire(t)
    \/ process_product_page_new_page(t)
    \/ process_product_page_route(t)
    \/ process_product_page_goto(t)
    \/ process_product_page_tab(t)
    \/ process_product_page_wait(t)
    \/ process_product_page_evaluate(t)
    \/ process_product_page_close(t)

(***************************************************************************)
(* pattern_learn_final.py: run_async_scan                                  *)
(***************************************************************************)
Raise(by) ==
    /\ spc' = "raised"
    /\ raisedBy' = by

\* browser = await p.chromium.launch(...); context = await browser.new_context(...)
run_async_scan_launch ==
    /\ spc = "launch"
    /\ \/ /\ spc' = "list_page"
          /\ browser_open' = TRUE
          /\ UNCHANGED raisedBy
       \/ /\ Raise("run_async_scan")
          /\ UNCHANGED browser_open
    /\ UNCHANGED <<max_pages, max_total_items, page_idx, total_scanned,
                   all_checkmark_keys, sem, task, list_page_open, mapping_file,
                   linkVars, pagVars, detailVars>>

\* list_page = await context.new_page(); await list_page.goto(category_url, ...)
\* all_checkmark_keys = set(); total_scanned = 0; sem = asyncio.Semaphore(...)
run_async_scan_goto ==
    /\ spc = "list_page"
    /\ \/ /\ spc' = "collect"
          /\ list_page_open' = TRUE
          /\ UNCHANGED raisedBy
       \/ /\ Raise("run_async_scan")
          /\ list_page_open' \in BOOLEAN
    /\ UNCHANGED <<max_pages, max_total_items, page_idx, total_scanned,
                   all_checkmark_keys, sem, task, browser_open, mapping_file,
                   linkVars, pagVars, detailVars>>

\* the cap tested with > in the place of >=
RECURSIVE SpawnTasksCapPassed(_, _, _)
SpawnTasksCapPassed(i, n, scanned) ==
    IF i > n THEN 0
    ELSE IF max_total_items # 0 /\ scanned > max_total_items THEN 0
    ELSE 1 + SpawnTasksCapPassed(i + 1, n, scanned + 1)

\* the loop of lines 193-198 from link i of n on: the number of tasks appended
RECURSIVE SpawnTasks(_, _, _)
SpawnTasks(i, n, scanned) ==
    IF i > n THEN 0
    ELSE IF max_total_items # 0 /\ scanned >= max_total_items THEN 0
    ELSE 1 + SpawnTasks(i + 1, n, scanned + 1)

\* links = await collect_links_on_page(list_page, None), the tasks of the
\* page and the start of asyncio.gather(*tasks)
run_async_scan_collect ==
    /\ spc = "collect"
    /\ \/ \E n \in 0..MaxLinks :
            LET started == SpawnTasks(1, n, total_scanned) IN
            /\ IF n = 0 \/ started = 0
                 THEN /\ spc' = "close"
                      /\ UNCHANGED <<task, total_scanned>>
                 ELSE /\ spc' = "gather"
                      /\ task' = [t \in TaskIds |-> IF t <= started THEN NewTask ELSE NoTask]
                      /\ total_scanned' = total_scanned + started
            /\ UNCHANGED raisedBy
       \/ /\ Raise("run_async_scan")
          /\ UNCHANGED <<task, total_scanned>>
    /\ UNCHANGED <<max_pages, max_total_items, page_idx, all_checkmark_keys, sem,
                   browser_open, list_page_open, mapping_file,
                   linkVars, pagVars, detailVars>>

\* a merge that assigns the key list instead of adding it
RECURSIVE MergeResultsAssign(_, _, _)
MergeResultsAssign(results, i, acc) ==
    IF i > Len(results) THEN acc
    ELSE MergeResultsAssign(results, i + 1, Range(results[i]))

\* "for keys_list in results: all_checkmark_keys.update(keys_list)", from
\* result i on
RECURSIVE MergeResults(_, _, _)
MergeResults(results, i, acc) ==
    IF i > Len(results) THEN acc
    ELSE MergeResults(results, i + 1, acc \cup Range(results[i]))

\* the results of gather: one key list per task, in task order
RECURSIVE Results(_)
Results(n) ==
    IF n = 0 THEN <<>>
    ELSE IF task[n].pc = "none" THEN Results(n - 1)
    ELSE Append(Results(n - 1), task[n].found_keys)

\* a gather that returns with the first task that returned
run_async_scan_gather_first ==
    /\ spc = "gather"
    /\ \E t \in TaskIds : task[t].pc = "done"
    /\ \A t \in TaskIds : task[t].pc # "failed"
    /\ all_checkmark_keys' = MergeResults(Results(MaxLinks), 1, all_checkmark_keys)
    /\ UNCHANGED task
    /\ spc' = IF max_total_items # 0 /\ total_scanned >= max_total_items THEN "close"
              ELSE IF page_idx < max_pages THEN "paginate"
              ELSE "close"
    /\ UNCHANGED <<max_pages, max_total_items, page_idx, total_scanned, sem,
                   browser_open, list_page_open, mapping_file, raisedBy,
                   linkVars, pagVars, detailVars>>

\* results = await asyncio.gather(*tasks) returns once every task returned;
\* then the merge, the cap check and the end of the loop (lines 207-215)
run_async_scan_gather_return ==
    /\ spc = "gather"
    /\ \A t \in TaskIds : task[t].pc \in {"none", "done"}
    /\ all_checkmark_keys' = MergeResults(Results(MaxLinks), 1, all_checkmark_keys)
    /\ UNCHANGED task
    /\ spc' = IF max_total_items # 0 /\ total_scanned >= max_total_items THEN "close"
              ELSE IF page_idx < max_pages THEN "paginate"
              ELSE "close"
    /\ UNCHANGED <<max_pages, max_total_items, page_idx, total_scanned, sem,
                   browser_open, list_page_open, mapping_file, raisedBy,
                   linkVars, pagVars, detailVars>>

\* gather without return_exceptions: the first exception of a task is raised
\* in run_async_scan at once, the other tasks run on
run_async_scan_gather_raise ==
    /\ spc = "gather"
    /\ \E t \in TaskIds : task[t].pc = "failed"
    /\ Raise("process_product_page")
    /\ UNCHANGED <<max_pages, max_total_items, page_idx, total_scanned,
                   all_checkmark_keys, sem, task, browser_open, list_page_open,
                   mapping_file,
                   linkVars, pagVars, detailVars>>

\* if not await paginate(list_page, page_idx + 1): break
run_async_scan_paginate ==
    /\ spc = "paginate"
    /\ \E moved \in BOOLEAN :
          IF moved THEN /\ page_idx' = page_idx + 1
                        /\ spc' = "collect"
                   ELSE /\ spc' = "close"
                        /\ UNCHANGED page_idx
    /\ UNCHANGED <<max_pages, max_total_items, total_scanned, all_checkmark_keys,
                   sem, task, browser_open, list_page_open, mapping_file, raisedBy,
                   linkVars, pagVars, detailVars>>

\* await browser.close()
run_async_scan_close ==
    /\ spc = "close"
    /\ \/ /\ spc' = "save"
          /\ browser_open' = FALSE
          /\ list_page_open' = FALSE
          /\ UNCHANGED raisedBy
       \/ /\ Raise("run_async_scan")
          /\ UNCHANGED <<browser_open, list_page_open>>
    /\ UNCHANGED <<max_pages, max_total_items, page_idx, total_scanned,
                   all_checkmark_keys, sem, task, mapping_file,
                   linkVars, pagVars, detailVars>>

\* the keys in descending order
RECURSIVE sorted_descending(_)
sorted_descending(S) ==
    IF S = {} THEN <<>>
    ELSE LET m == CHOOSE x \in S : \A y \in S : x >= y
         IN <<m>> \o sorted_descending(S \ {m})

\* sorted(all_checkmark_keys): ascending
RECURSIVE sorted(_)
sorted(S) ==
    IF S = {} THEN <<>>
    ELSE LET m == CHOOSE x \in S : \A y \in S : x <= y
         IN <<m>> \o sorted(S \ {m})

\* unique_items = sorted(all_checkmark_keys); json.dump(mapping, f, ...)
run_async_scan_save ==
    /\ spc = "save"
    /\ LET unique_items == sorted(all_checkmark_keys) IN
       mapping_file' = [count |-> Len(unique_items), items |-> unique_items]
    /\ spc' = "done"
    /\ UNCHANGED <<max_pages, max_total_items, page_idx, total_scanned,
                   all_checkmark_keys, sem, task, browser_open, list_page_open,
                   raisedBy,
                   linkVars, pagVars, detailVars>>

\* a teardown that stops the tasks and leaves the browser
run_async_scan_teardown_leaves_browser ==
    /\ spc = "raised"
    /\ spc' = "aborted"
    /\ task' = [t \in TaskIds |->
                  IF task[t].pc = "none" THEN NoTask
                  ELSE [task[t] EXCEPT !.pc = IF @ \in {"done", "failed"} THEN @
                                              ELSE "cancelled"]]
    /\ UNCHANGED <<max_pages, max_total_items, page_idx, total_scanned,
                   all_checkmark_keys, sem, browser_open, list_page_open,
                   mapping_file, raisedBy, linkVars, pagVars, detailVars>>

\* an exception leaves "async with async_playwright()": the driver is stopped,
\* which ends the browser and its pages, and asyncio.run cancels the tasks
\* that are left
run_async_scan_teardown ==
    /\ spc = "raised"
    /\ spc' = "aborted"
    /\ browser_open' = FALSE
    /\ list_page_open' = FALSE
    /\ task' = [t \in TaskIds |->
                  IF task[t].pc = "none" THEN NoTask
                  ELSE [task[t] EXCEPT !.page = FALSE,
                                       !.pc = IF @ \in {"done", "failed"} THEN @
                                              ELSE "cancelled"]]
    /\ UNCHANGED <<max_pages, max_total_items, page_idx, total_scanned,
                   all_checkmark_keys, sem, mapping_file, raisedBy,
                   linkVars, pagVars, detailVars>>

InitScan ==
    /\ spc = "launch"
    /\ max_pages \in 1..MaxPages
    /\ max_total_items \in 0..MaxTotalItems
    /\ page_idx = 1
    /\ total_scanned = 0
    /\ all_checkmark_keys = {}
    /\ sem = CONCURRENT_TABS
    /\ task = [t \in TaskIds |-> NoTask]
    /\ browser_open = FALSE
    /\ list_page_open = FALSE
    /\ mapping_file = <<>>
    /\ raisedBy = "nobody"
    /\ LinksIdle
    /\ PaginateIdle
    /\ DetailIdle

NextScan ==
    \/ run_async_scan_launch
    \/ run_async_scan_goto
    \/ run_async_scan_collect
    \/ run_async_scan_gather_return
    \/ run_async_scan_gather_raise
    \/ run_async_scan_paginate
    \/ run_async_scan_close
    \/ run_async_scan_save
    \/ run_async_scan_teardown
    \/ \E t \in TaskIds : process_product_page(t)

SpecScan == InitScan /\ [][NextScan]_vars

(***************************************************************************)
(* The listing DOM the link collectors read.                               *)
(***************************************************************************)
\* the href attributes an anchor can carry; NoHref: the attribute is missing
NoHref == "None"
Hrefs == {NoHref, "javascript:void(0)", "https://shop.example.com/p/1",
          "/product/1", "https://prod.danawa.com/info/?pcode=1",
          "https://prod.danawa.com/info/?pcode=2"}

\* href.startswith("javascript:") and href.includes('javascript')
IsJavascript(href) == href = "javascript:void(0)"
\* "danawa" in href
HasDanawa(href) == href \in {"https://prod.danawa.com/info/?pcode=1",
                            "https://prod.danawa.com/info/?pcode=2"}
\* href.startswith("/")
StartsWithSlash(href) == href = "/product/1"

\* the inner text of an anchor: a product name, or one of the labels the
\* crawl's collector passes over
Texts == {"stroller a", "price compare"}
\* any(x in lowered for x in [<price>, <compare>, <option>, <composition>]):
\* the four Korean labels of line 297
IsLabel(text) == text = "price compare"

selectors_crawl == <<"li.prod_item div.prod_info a.prod_link",
                     "li.prod_item .prod_name a",
                     "div.prod_info a.prod_link",
                     "a[href*='/product/']",
                     "a[href*='product/view.html']">>

selectors_learn == <<"li.prod_item div.prod_info a.prod_link",
                     "li.prod_item .prod_name a",
                     "div.prod_info a.prod_link">>

\* the sets of selectors one anchor matches: the product link of a list
\* item (which div.prod_info a.prod_link matches too), the link of its name,
\* and an anchor outside the list whose href holds '/product/'
Matches == {{selectors_crawl[1], selectors_crawl[3]},
            {selectors_crawl[2]},
            {selectors_crawl[4]}}

Anchors == [href : Hrefs, text : Texts, matches : Matches]

\* page.locator(selector).all(), document.querySelectorAll(sel): the anchors
\* the selector matches, in document order
Locator(d, selector) == SelectSeq(d, LAMBDA a : selector \in a.matches)

(***************************************************************************)
(* crawl_stroller.py: collect_product_links_from_category                  *)
(***************************************************************************)
\* "for a in page.locator(selector).all()" from element j on (lines 282-302)
RECURSIVE collect_crawl_elements(_, _, _, _)
collect_crawl_elements(els, j, cap, st) ==
    IF j > Len(els) THEN st
    ELSE LET href == els[j].href
             text == els[j].text
         IN IF href = NoHref THEN collect_crawl_elements(els, j + 1, cap, st)
            ELSE IF IsJavascript(href) THEN collect_crawl_elements(els, j + 1, cap, st)
            ELSE IF ~HasDanawa(href) /\ ~StartsWithSlash(href)
                 THEN collect_crawl_elements(els, j + 1, cap, st)
            ELSE IF href \in st.seen THEN collect_crawl_elements(els, j + 1, cap, st)
            ELSE IF IsLabel(text) THEN collect_crawl_elements(els, j + 1, cap, st)
            ELSE LET st2 == [st EXCEPT !.seen = @ \cup {href},
                                       !.links = Append(@, href)]
                 IN IF cap # 0 /\ Len(st2.links) >= cap
                    THEN [st2 EXCEPT !.returned = TRUE]
                    ELSE collect_crawl_elements(els, j + 1, cap, st2)

\* "for selector in selectors" from selector i on (lines 279-303)
RECURSIVE collect_crawl_selectors(_, _, _, _)
collect_crawl_selectors(d, i, cap, st) ==
    IF i > Len(selectors_crawl) THEN st
    ELSE LET els == Locator(d, selectors_crawl[i]) IN
         IF Len(els) = 0 THEN collect_crawl_selectors(d, i + 1, cap, st)
         ELSE LET st2 == collect_crawl_elements(els, 1, cap,
                             [st EXCEPT !.consulted = @ \cup {selectors_crawl[i]}])
              IN IF st2.returned THEN st2
                 ELSE collect_crawl_selectors(d, i + 1, cap, st2)

collect_product_links_from_category ==
    /\ lpc = "call"
    /\ collector = "collect_product_links_from_category"
    /\ LET st == collect_crawl_selectors(dom, 1, max_per_page,
                     [links |-> <<>>, seen |-> {}, consulted |-> {}, returned |-> FALSE])
       IN /\ links' = st.links
          /\ consulted' = st.consulted
    /\ lpc' = "returned"
    /\ UNCHANGED <<collector, dom, max_per_page, scanVars, pagVars, detailVars>>

(***************************************************************************)
(* pattern_learn_final.py: collect_links_on_page                           *)
(***************************************************************************)
\* the array page.evaluate returns for one selector (lines 113-122)
found_links(els) ==
    LET kept == SelectSeq(els, LAMBDA a : /\ a.href # NoHref
                                          /\ ~IsJavascript(a.href)
                                          /\ HasDanawa(a.href))
    IN [k \in 1..Len(kept) |-> kept[k].href]

\* the loop without its "if href not in seen"
RECURSIVE collect_learn_hrefs_unseen(_, _, _)
collect_learn_hrefs_unseen(found, j, st) ==
    IF j > Len(found) THEN st
    ELSE collect_learn_hrefs_unseen(found, j + 1, [st EXCEPT !.links = Append(@, found[j])])

\* "for href in found_links" from element j on (lines 124-127)
RECURSIVE collect_learn_hrefs(_, _, _)
collect_learn_hrefs(found, j, st) ==
    IF j > Len(found) THEN st
    ELSE IF found[j] \notin st.seen
         THEN collect_learn_hrefs(found, j + 1,
                  [st EXCEPT !.seen = @ \cup {found[j]}, !.links = Append(@, found[j])])
         ELSE collect_learn_hrefs(found, j + 1, st)

\* "for sel in selectors" from selector i on (lines 111-129)
RECURSIVE collect_learn_selectors(_, _, _)
collect_learn_selectors(d, i, st) ==
    IF i > Len(selectors_learn) THEN st
    ELSE LET els == Locator(d, selectors_learn[i]) IN
         IF Len(els) > 0
         THEN LET st2 == collect_learn_hrefs(found_links(els), 1,
                             [st EXCEPT !.consulted = @ \cup {selectors_learn[i]}])
              IN IF st2.links # <<>> THEN st2
                 ELSE collect_learn_selectors(d, i + 1, st2)
         ELSE collect_learn_selectors(d, i + 1, st)

\* links[:max_per_page]
Slice(s, n) == SubSeq(s, 1, Min(n, Len(s)))

collect_links_on_page ==
    /\ lpc = "call"
    /\ collector = "collect_links_on_page"
    /\ LET st == collect_learn_selectors(dom, 1,
                     [links |-> <<>>, seen |-> {}, consulted |-> {}, returned |-> FALSE])
       IN /\ links' = IF max_per_page # 0 THEN Slice(st.links, max_per_page) ELSE st.links
          /\ consulted' = st.consulted
    /\ lpc' = "returned"
    /\ UNCHANGED <<collector, dom, max_per_page, scanVars, pagVars, detailVars>>

\* sequences over S of length at most n
SeqsUpTo(S, n) == UNION {[1..k -> S] : k \in 0..n}

InitLinks ==
    /\ lpc = "call"
    /\ collector \in {"collect_product_links_from_category", "collect_links_on_page"}
    /\ dom \in SeqsUpTo(Anchors, MaxAnchors)
    /\ max_per_page \in 0..MaxCap
    /\ links = <<>>
    /\ consulted = {}
    /\ ScanIdle
    /\ PaginateIdle
    /\ DetailIdle

NextLinks ==
    \/ collect_product_links_from_category
    \/ collect_links_on_page

SpecLinks == InitLinks /\ [][NextLinks]_vars

(***************************************************************************)
(* The pagination controllers.  A step is one call of the browser; the     *)
(* browser answers each call in any way it can: a count of zero or more,   *)
(* a click or a wait that returns, or an exception (a timeout, a script    *)
(* error).                                                                 *)
(***************************************************************************)
\* the answers to a call.  "some"/"zero": locator.count(); "function"/"other":
\* typeof movePage === 'function'; "ok": the click, the call of movePage or
\* the wait returned
Answers(op) ==
    IF op \in {"btn_count", "next_count", "btn2_count"} THEN {"some", "zero", "raise"}
    ELSE IF op = "typeof" THEN {"function", "other", "raise"}
    ELSE {"ok", "raise"}

\* what a call that returned does to the listing: the numbered button and
\* movePage(page_num) show the target page, the 'next group' control shows
\* whatever page it leads to
Shown(op, out) ==
    IF out # "ok" THEN {listing}
    ELSE IF op \in {"btn_click", "fn_call", "btn2_click"} THEN {page_num}
    ELSE IF op = "next_click" THEN 1..MaxListing
    ELSE {listing}

\* "return True" / "return False": value is "True" or "False"
Return(value) ==
    /\ value \in {"True", "False"}
    /\ ppc' = "returned"
    /\ presult' = value
    /\ pcalls' = pcalls + 1

\* one browser call at ppc, answered by out, in a controller whose next
\* position is given by next; an exception leads to the except clause
BrowserCall(out, next) ==
    /\ plog' = Append(plog, [op |-> ppc, out |-> out])
    /\ listing' \in Shown(ppc, out)
    /\ IF out = "raise"
         THEN /\ ppc' = "except"
              /\ UNCHANGED <<presult, pcalls>>
         ELSE IF next \in {"return True", "return False"}
                THEN Return(IF next = "return True" THEN "True" ELSE "False")
                ELSE /\ ppc' = next
                     /\ UNCHANGED <<presult, pcalls>>
    /\ UNCHANGED <<controller, page_num, pfirst, pstart, scanVars, linkVars, detailVars>>

(***************************************************************************)
(* crawl_stroller.py: paginate_category                                    *)
(***************************************************************************)
\* the fall-through of a strategy that succeeded into the next one
paginate_category_falls_through(op, out) ==
    CASE op = "btn_count"  -> IF out = "some" THEN "btn_click" ELSE "typeof"
      [] op = "btn_click"  -> "btn_wait"
      [] op = "btn_wait"   -> "typeof"
      [] op = "typeof"     -> IF out = "function" THEN "fn_call" ELSE "next_count"
      [] op = "fn_call"    -> "fn_wait"
      [] op = "fn_wait"    -> "next_count"
      [] op = "next_count" -> IF out = "some" THEN "next_click" ELSE "return False"
      [] op = "next_click" -> "next_wait"
      [] op = "next_wait"  -> "btn2_count"
      [] op = "btn2_count" -> IF out = "some" THEN "btn2_click" ELSE "return False"
      [] op = "btn2_click" -> "btn2_wait"
      [] op = "btn2_wait"  -> "return True"

\* where paginate_category goes after the call op answered by out
paginate_category_next(op, out) ==
    CASE op = "btn_count"  -> IF out = "some" THEN "btn_click" ELSE "typeof"
      [] op = "btn_click"  -> "btn_wait"
      [] op = "btn_wait"   -> "return True"
      [] op = "typeof"     -> IF out = "function" THEN "fn_call" ELSE "next_count"
      [] op = "fn_call"    -> "fn_wait"
      [] op = "fn_wait"    -> "return True"
      [] op = "next_count" -> IF out = "some" THEN "next_click" ELSE "return False"
      [] op = "next_click" -> "next_wait"
      [] op = "next_wait"  -> "btn2_count"
      [] op = "btn2_count" -> IF out = "some" THEN "btn2_click" ELSE "return False"
      [] op = "btn2_click" -> "btn2_wait"
      [] op = "btn2_wait"  -> "return True"

\* lines 308-313: the numbered page button
paginate_category_button ==
    /\ controller = "paginate_category"
    /\ ppc \in {"btn_count", "btn_click", "btn_wait"}
    /\ \E out \in Answers(ppc) : BrowserCall(out, paginate_category_next(ppc, out))

\* lines 315-319: movePage(page_num) called directly
paginate_category_function ==
    /\ controller = "paginate_category"
    /\ ppc \in {"typeof", "fn_call", "fn_wait"}
    /\ \E out \in Answers(ppc) : BrowserCall(out, paginate_category_next(ppc, out))

\* lines 321-333: the 'next group' control, then the numbered button once more
paginate_category_next_group ==
    /\ controller = "paginate_category"
    /\ ppc \in {"next_count", "next_click", "next_wait",
                "btn2_count", "btn2_click", "btn2_wait"}
    /\ \E out \in Answers(ppc) : BrowserCall(out, paginate_category_next(ppc, out))

\* an except clause that lets the exception through to the caller
paginate_category_reraise ==
    /\ controller = "paginate_category"
    /\ ppc = "except"
    /\ ppc' = "raised"
    /\ UNCHANGED <<controller, page_num, listing, plog, presult, pcalls, pfirst,
                   pstart, scanVars, linkVars, detailVars>>

\* lines 335-337: except Exception as e: ... return False
paginate_category_except ==
    /\ controller = "paginate_category"
    /\ ppc = "except"
    /\ Return("False")
    /\ UNCHANGED <<controller, page_num, listing, plog, pfirst, pstart,
                   scanVars, linkVars, detailVars>>

(***************************************************************************)
(* pattern_learn_final.py: paginate                                        *)
(***************************************************************************)
\* where paginate goes after the call op answered by out
paginate_next(op, out) ==
    CASE op = "typeof"    -> IF out = "function" THEN "fn_call" ELSE "btn_count"
      [] op = "fn_call"   -> "fn_wait"
      [] op = "fn_wait"   -> "return True"
      [] op = "btn_count" -> IF out = "some" THEN "btn_click" ELSE "return False"
      [] op = "btn_click" -> "btn_wait"
      [] op = "btn_wait"  -> "return True"

\* lines 140-144: movePage(page_num) called directly
paginate_function ==
    /\ controller = "paginate"
    /\ ppc \in {"typeof", "fn_call", "fn_wait"}
    /\ \E out \in Answers(ppc) : BrowserCall(out, paginate_next(ppc, out))

\* lines 147-153: the numbered page button
paginate_button ==
    /\ controller = "paginate"
    /\ ppc \in {"btn_count", "btn_click", "btn_wait"}
    /\ \E out \in Answers(ppc) : BrowserCall(out, paginate_next(ppc, out))

\* lines 154-155: except: return False
paginate_except ==
    /\ controller = "paginate"
    /\ ppc = "except"
    /\ Return("False")
    /\ UNCHANGED <<controller, page_num, listing, plog, pfirst, pstart,
                   scanVars, linkVars, detailVars>>

\* the first browser call of a controller
FirstCall(c) == IF c = "paginate_category" THEN "btn_count" ELSE "typeof"

\* the caller asks for the same page once more (crawl_category asks for
\* page_index + 1 after every item that left the listing, lines 680-681)
advance_again ==
    /\ ppc = "returned"
    /\ pcalls = 1
    /\ ppc' = FirstCall(controller)
    /\ pfirst' = [result |-> presult, plog |-> plog]
    /\ presult' = "none"
    /\ plog' = <<>>
    /\ pstart' = listing
    /\ UNCHANGED <<controller, page_num, listing, pcalls, scanVars, linkVars, detailVars>>

InitPaginate ==
    /\ controller \in {"paginate_category", "paginate"}
    /\ ppc = FirstCall(controller)
    /\ page_num \in 2..MaxListing
    /\ listing \in 1..MaxListing
    /\ plog = <<>>
    /\ presult = "none"
    /\ pcalls = 0
    /\ pfirst = [result |-> "none", plog |-> <<>>]
    /\ pstart = listing
    /\ ScanIdle
    /\ LinksIdle
    /\ DetailIdle

NextPaginate ==
    \/ paginate_category_button
    \/ paginate_category_function
    \/ paginate_category_next_group
    \/ paginate_category_except
    \/ paginate_function
    \/ paginate_button
    \/ paginate_except
    \/ advance_again

SpecPaginate == InitPaginate /\ [][NextPaginate]_vars

(***************************************************************************)
(* crawl_stroller.py: extract_price_range and the price cells of a record. *)
(* A text is the sequence of its characters.                               *)
(***************************************************************************)
\* the most merchant price items of a detail page
MaxPriceItems == 2

\* the texts a price span or an input's value can hold: nothing, a text
\* without a digit, "9" and "1,2"
PriceTexts == {<<>>, <<"x">>, <<"9">>, <<"1", ",", "2">>}

\* what the page has for one price span or input: an element with a text, no
\* element ("missing"), or an element whose read raises
PriceCells == [kind : {"text"}, text : PriceTexts]
                  \cup [kind : {"missing", "raises"}, text : {<<>>}]

Digits == <<"0", "1", "2", "3", "4", "5", "6", "7", "8", "9">>

\* int(digits), digit by digit from the left
RECURSIVE int(_, _)
int(digits, acc) ==
    IF digits = <<>> THEN acc
    ELSE int(Tail(digits),
             acc * Len(Digits) + (CHOOSE d \in DOMAIN Digits : Digits[d] = Head(digits)) - 1)

\* _parse_price: <<>> for None, <<n>> for the integer n
parse_price(text) ==
    LET digits == SelectSeq(text, LAMBDA c : c \in Range(Digits))
    IN IF digits = <<>> THEN <<>> ELSE <<int(digits, 0)>>

PriceFrame == UNCHANGED <<price_items, min_input, max_input,
                          scanVars, linkVars, pagVars, crawlVars, normVars,
                          pageVars>>

\* lines 67-70: the locator of the price items (under either spelling of the
\* list's class) and its count; an exception ends the outer try with no
\* price read
extract_price_range_list ==
    /\ xpc = "list"
    /\ \/ xpc' = "item"
       \/ xpc' = "inputs"
    /\ UNCHANGED <<idx, prices, min_price, max_price, row>>
    /\ PriceFrame

\* lines 71-84: one turn of "for idx in range(count)"
extract_price_range_item ==
    /\ xpc = "item"
    /\ idx < Len(price_items)
    /\ LET item == price_items[idx + 1]
           price_value == parse_price(item.text)
       IN prices' = IF item.kind = "text" THEN prices \o price_value ELSE prices
    /\ idx' = idx + 1
    /\ UNCHANGED <<xpc, min_price, max_price, row>>
    /\ PriceFrame

\* the end of the loop
extract_price_range_items_done ==
    /\ xpc = "item"
    /\ idx = Len(price_items)
    /\ xpc' = "inputs"
    /\ UNCHANGED <<idx, prices, min_price, max_price, row>>
    /\ PriceFrame

\* lines 90-101 with the inputs a and b: the values appended to prices.  The
\* two reads share one try, so a min input that raises ends it
price_inputs(a, b) ==
    IF a.kind = "raises" THEN <<>>
    ELSE (IF a.kind = "text" THEN parse_price(a.text) ELSE <<>>)
             \o (IF b.kind = "text" THEN parse_price(b.text) ELSE <<>>)

\* a range that takes the first and the last price read
price_range_first_last(s) ==
    IF s = <<>> THEN <<<<>>, <<>>>> ELSE <<<<s[1]>>, <<s[Len(s)]>>>>

\* lines 103-106: return None, None / return min(prices), max(prices)
price_range(s) ==
    LET min == CHOOSE x \in Range(s) : \A y \in Range(s) : x <= y
        max == CHOOSE x \in Range(s) : \A y \in Range(s) : x >= y
    IN IF s = <<>> THEN <<<<>>, <<>>>> ELSE <<<<min>>, <<max>>>>

\* lines 88-106: the fallback to the inputs when no price was read, and the
\* return of extract_price_range into min_price, max_price (line 467)
extract_price_range_return ==
    /\ xpc = "inputs"
    /\ prices' = IF prices = <<>> THEN price_inputs(min_input, max_input) ELSE prices
    /\ min_price' = price_range(prices')[1]
    /\ max_price' = price_range(prices')[2]
    /\ xpc' = "row"
    /\ UNCHANGED <<idx, row>>
    /\ PriceFrame

\* lines 653-662: the price cells of the row, empty for None
crawl_category_row ==
    /\ xpc = "row"
    /\ row' = <<[min_price |-> min_price, max_price |-> max_price]>>
    /\ xpc' = "done"
    /\ UNCHANGED <<idx, prices, min_price, max_price>>
    /\ PriceFrame

InitPrice ==
    /\ xpc = "list"
    /\ price_items \in SeqsUpTo(PriceCells, MaxPriceItems)
    /\ min_input \in PriceCells
    /\ max_input \in PriceCells
    /\ idx = 0
    /\ prices = <<>>
    /\ min_price = <<>>
    /\ max_price = <<>>
    /\ row = <<>>
    /\ ScanIdle
    /\ LinksIdle
    /\ PaginateIdle
    /\ CrawlIdle
    /\ NormIdle
    /\ PageIdle

NextPrice ==
    \/ extract_price_range_list
    \/ extract_price_range_item
    \/ extract_price_range_items_done
    \/ extract_price_range_return
    \/ crawl_category_row

SpecPrice == InitPrice /\ [][NextPrice]_vars

(***************************************************************************)
(* crawl_stroller.py: crawl_category, the orchestrator of the full crawl.  *)
(* A row of all_rows is written as its URL; the listing tab shows listing  *)
(* page shown, 0 when it shows no listing (it has drifted to a product).   *)
(***************************************************************************)
\* the product URLs the listing pages of the category can show
Urls == {"https://prod.danawa.com/info/?pcode=1", "https://prod.danawa.com/info/?pcode=2"}

\* what collect_product_links_from_category can return: no URL twice
LinkLists == {l \in SeqsUpTo(Urls, Cardinality(Urls)) : Cardinality(Range(l)) = Len(l)}

\* the jitter drawn up to twice the base
human_delay_wide(base) == {[base |-> base, ms |-> base + jitter] : jitter \in 0..(2 * base)}

\* lines 42-44: jitter = random.randint(0, base_delay_ms), both ends
\* included, and time.sleep((base_delay_ms + jitter) / 1000.0): the sleeps
\* the call can ask for, in milliseconds
human_delay(base) == {[base |-> base, ms |-> base + jitter] : jitter \in 0..base}

CrawlFrame == UNCHANGED <<pattern_json, crawl_max_pages, crawl_max_total_items,
                          base_delay_ms,
                          scanVars, linkVars, pagVars, priceVars, normVars,
                          pageVars>>

\* lines 411-419: checkmark_items = load_pattern_from_json(pattern_json) is
\* the items of the file, or [] after a printed warning when the file is
\* missing or cannot be read (lines 349-354); the mapping of [] is empty, and
\* crawl_category goes on to the browser in every case
crawl_category_load ==
    /\ cpc = "load"
    /\ cpc' = "open"
    /\ UNCHANGED <<page_index, product_links, link_idx, all_rows, shown,
                   detail_page_open, crawl_browser_open, output_csv, advance_result,
                   slept>>
    /\ CrawlFrame

\* lines 421-431: the browser, the listing tab, its first navigation and the
\* delay of line 429.  An exception here, in the write or in the close leaves
\* crawl_category ("raised")
crawl_category_open ==
    /\ cpc = "open"
    /\ crawl_browser_open' \in BOOLEAN
    /\ \/ /\ crawl_browser_open'
          /\ cpc' = "collect"
          /\ shown' = 1
          /\ \E d \in human_delay(base_delay_ms) : slept' = <<d>>
       \/ /\ cpc' = "raised"
          /\ UNCHANGED <<shown, slept>>
    /\ UNCHANGED <<page_index, product_links, link_idx, all_rows,
                   detail_page_open, output_csv, advance_result>>
    /\ CrawlFrame

\* a paginate_category call that does not return True, or whose result is
\* dropped (lines 681, 704, 711): the listing ends on the page asked for or
\* on any other page
PaginateDropped(target) == shown' \in 1..MaxPages \cup {target}

\* "for page_index in range(max_pages)" takes its next value, or ends
NextListingPage ==
    /\ page_index' = page_index + 1
    /\ cpc' = IF page_index + 1 < crawl_max_pages THEN "collect" ELSE "write"

\* an empty link list taken for a page whose items are all done
crawl_category_collect_goes_on ==
    /\ cpc = "collect"
    /\ \/ \E l \in LinkLists :
            /\ product_links' = l
            /\ link_idx' = 1
            /\ cpc' = IF l = <<>> THEN "after_items" ELSE "item"
       \/ /\ cpc' = "except"
          /\ UNCHANGED <<product_links, link_idx>>
    /\ UNCHANGED <<page_index, all_rows, shown, detail_page_open,
                   crawl_browser_open, output_csv, advance_result, slept>>
    /\ CrawlFrame

\* lines 436-441: the links of the listing page shown
crawl_category_collect ==
    /\ cpc = "collect"
    /\ \/ \E l \in LinkLists :
            /\ product_links' = l
            /\ link_idx' = 1
            /\ cpc' = IF l = <<>> THEN "write" ELSE "item"
       \/ /\ cpc' = "except"
          /\ UNCHANGED <<product_links, link_idx>>
    /\ UNCHANGED <<page_index, all_rows, shown, detail_page_open,
                   crawl_browser_open, output_csv, advance_result, slept>>
    /\ CrawlFrame

\* the cap tested with > in the place of >=
crawl_category_item_cap_passed ==
    /\ cpc = "item"
    /\ IF link_idx > Len(product_links)
         THEN /\ cpc' = "after_items"
              /\ UNCHANGED <<link_idx, detail_page_open>>
         ELSE IF crawl_max_total_items # 0 /\ Len(all_rows) > crawl_max_total_items
         THEN /\ cpc' = "after_items"
              /\ UNCHANGED <<link_idx, detail_page_open>>
         ELSE \/ /\ detail_page_open' = TRUE
                 /\ cpc' = "detail"
                 /\ UNCHANGED link_idx
              \/ /\ link_idx' = link_idx + 1
                 /\ UNCHANGED <<cpc, detail_page_open>>
              \/ /\ detail_page_open' = TRUE
                 /\ link_idx' = link_idx + 1
                 /\ UNCHANGED cpc
    /\ UNCHANGED <<page_index, product_links, all_rows, shown,
                   crawl_browser_open, output_csv, advance_result, slept>>
    /\ CrawlFrame

\* lines 451-459: the next link, the cap, and the detail page of the link.
\* context.new_page() returns and the page goes to the try of line 460, or it
\* raises and line 688 takes the next link; detail_page.set_default_timeout
\* (line 459) stands before that try, so when it raises line 688 takes the
\* next link with the page left open
crawl_category_item ==
    /\ cpc = "item"
    /\ IF link_idx > Len(product_links)
         THEN /\ cpc' = "after_items"
              /\ UNCHANGED <<link_idx, detail_page_open>>
         ELSE IF crawl_max_total_items # 0 /\ Len(all_rows) >= crawl_max_total_items
         THEN /\ cpc' = "after_items"
              /\ UNCHANGED <<link_idx, detail_page_open>>
         ELSE \/ /\ detail_page_open' = TRUE
                 /\ cpc' = "detail"
                 /\ UNCHANGED link_idx
              \/ /\ link_idx' = link_idx + 1
                 /\ UNCHANGED <<cpc, detail_page_open>>
              \/ /\ detail_page_open' = TRUE
                 /\ link_idx' = link_idx + 1
                 /\ UNCHANGED cpc
    /\ UNCHANGED <<page_index, product_links, all_rows, shown,
                   crawl_browser_open, output_csv, advance_result, slept>>
    /\ CrawlFrame

\* lines 460-671: the navigation and the extraction, all_rows.append(row) or
\* the except clause, and detail_page.close() in the finally clause, whose
\* exception is passed over: the page is closed when close returns and in
\* either state when it raises.  Meanwhile the listing tab stays where it is
\* or drifts to a product page.  After detail_page.goto (line 461) no delay
\* has run yet; the delays of slow_scroll (line 463) run when it returned.
crawl_category_detail ==
    /\ cpc = "detail"
    /\ \/ all_rows' = Append(all_rows, product_links[link_idx])
       \/ UNCHANGED all_rows
    /\ detail_page_open' \in BOOLEAN
    /\ shown' \in {shown, 0}
    /\ \/ slept' = <<>>
       \/ \E d \in human_delay(base_delay_ms) : slept' = <<d>>
    /\ cpc' = "drift"
    /\ UNCHANGED <<page_index, product_links, link_idx, crawl_browser_open,
                   output_csv, advance_result>>
    /\ CrawlFrame

\* lines 673-687: the check of the listing tab's URL after an item.  A tab
\* on a product page is sent to category_url: the goto raises and the tab
\* stays (line 684), or the listing shows its first page and, from the second
\* listing page on, paginate_category is asked for page_index + 1 and its
\* result dropped.  human_delay(base_delay_ms) runs first (line 674) and last
\* (line 687, after the try) whatever happens between them
crawl_category_drift ==
    /\ cpc = "drift"
    /\ IF shown # 0 THEN UNCHANGED shown
       ELSE \/ UNCHANGED shown
            \/ IF page_index > 0 THEN PaginateDropped(page_index + 1) ELSE shown' = 1
    /\ \E d \in human_delay(base_delay_ms) : slept' = <<d>>
    /\ link_idx' = link_idx + 1
    /\ cpc' = "item"
    /\ UNCHANGED <<page_index, product_links, all_rows, detail_page_open,
                   crawl_browser_open, output_csv, advance_result>>
    /\ CrawlFrame

\* lines 692-696: the cap, and whether a next listing page is asked for
crawl_category_after_items ==
    /\ cpc = "after_items"
    /\ IF crawl_max_total_items # 0 /\ Len(all_rows) >= crawl_max_total_items
         THEN cpc' = "write" /\ UNCHANGED page_index
         ELSE IF page_index < crawl_max_pages - 1
         THEN cpc' = "advance" /\ UNCHANGED page_index
         ELSE NextListingPage
    /\ UNCHANGED <<product_links, link_idx, all_rows, shown, detail_page_open,
                   crawl_browser_open, output_csv, advance_result, slept>>
    /\ CrawlFrame

\* lines 697-729: moved = paginate_category(page, category_url, page_index + 2),
\* the break when it is False, the scroll and the delay after it
crawl_category_advance ==
    /\ cpc = "advance"
    /\ \/ /\ advance_result' = "True"
          /\ shown' = page_index + 2
          /\ \/ /\ NextListingPage
                /\ \E d \in human_delay(base_delay_ms) : slept' = <<d>>
             \/ /\ cpc' = "except"
                /\ UNCHANGED <<page_index, slept>>
       \/ /\ advance_result' = "False"
          /\ PaginateDropped(shown)
          /\ cpc' = "write"
          /\ UNCHANGED <<page_index, slept>>
    /\ UNCHANGED <<product_links, link_idx, all_rows, detail_page_open,
                   crawl_browser_open, output_csv>>
    /\ CrawlFrame

\* lines 730-737: the except clause of a listing page: before the last page
\* paginate_category is asked for the next page and its result dropped; the
\* loop takes its next value
crawl_category_except ==
    /\ cpc = "except"
    /\ IF page_index < crawl_max_pages - 1
         THEN \/ /\ advance_result' = "True"
                 /\ shown' = page_index + 2
              \/ /\ advance_result' = "False"
                 /\ PaginateDropped(shown)
         ELSE /\ advance_result' = "none"
              /\ UNCHANGED shown
    /\ NextListingPage
    /\ UNCHANGED <<product_links, link_idx, all_rows, detail_page_open,
                   crawl_browser_open, output_csv, slept>>
    /\ CrawlFrame

\* lines 739-746: the rows are written to output_csv
crawl_category_write ==
    /\ cpc = "write"
    /\ \/ /\ output_csv' = <<all_rows>>
          /\ cpc' = "close"
       \/ /\ cpc' = "raised"
          /\ UNCHANGED output_csv
    /\ UNCHANGED <<page_index, product_links, link_idx, all_rows, shown,
                   detail_page_open, crawl_browser_open, advance_result, slept>>
    /\ CrawlFrame

\* line 748: context.browser.close()
crawl_category_close ==
    /\ cpc = "close"
    /\ \/ /\ crawl_browser_open' = FALSE
          /\ detail_page_open' = FALSE
          /\ cpc' = "done"
       \/ /\ cpc' = "raised"
          /\ UNCHANGED <<crawl_browser_open, detail_page_open>>
    /\ UNCHANGED <<page_index, product_links, link_idx, all_rows, shown, output_csv,
                   advance_result, slept>>
    /\ CrawlFrame

\* an exception leaves "with sync_playwright() as p": the driver is stopped,
\* which ends the browser and its pages
crawl_category_teardown ==
    /\ cpc = "raised"
    /\ cpc' = "aborted"
    /\ crawl_browser_open' = FALSE
    /\ detail_page_open' = FALSE
    /\ UNCHANGED <<page_index, product_links, link_idx, all_rows, shown, output_csv,
                   advance_result, slept>>
    /\ CrawlFrame

\* how the file of pattern_json can be: readable, missing (FileNotFoundError,
\* line 349) or not to be read as JSON (line 352)
PatternFiles == {"readable", "missing", "unreadable"}

InitCrawl ==
    /\ cpc = "load"
    /\ pattern_json \in PatternFiles
    /\ crawl_max_pages \in 1..MaxPages
    /\ crawl_max_total_items \in 0..MaxTotalItems
    /\ page_index = 0
    /\ product_links = <<>>
    /\ link_idx = 0
    /\ all_rows = <<>>
    /\ shown = 0
    /\ detail_page_open = FALSE
    /\ crawl_browser_open = FALSE
    /\ output_csv = <<>>
    /\ advance_result = "none"
    /\ base_delay_ms \in 0..MaxDelay
    /\ slept = <<>>
    /\ ScanIdle
    /\ LinksIdle
    /\ PaginateIdle
    /\ PriceIdle
    /\ NormIdle
    /\ PageIdle

NextCrawl ==
    \/ crawl_category_load
    \/ crawl_category_open
    \/ crawl_category_collect
    \/ crawl_category_item
    \/ crawl_category_detail
    \/ crawl_category_drift
    \/ crawl_category_after_items
    \/ crawl_category_advance
    \/ crawl_category_except
    \/ crawl_category_write
    \/ crawl_category_close
    \/ crawl_category_teardown

SpecCrawl == InitCrawl /\ [][NextCrawl]_vars

(***************************************************************************)
(* crawl_stroller.py: the attribute normalizer of crawl_category           *)
(* (lines 504-652) and analyze_and_create_mapping.                         *)
(*                                                                         *)
(* A text is the sequence of its symbols.  A symbol is a character ("O",   *)
(* "(", ":", " ") or a word of the source's tables, written in English:    *)
(* "cert" for the word of line 386, <<"cert", "number">> for the one of    *)
(* line 566, <<"target", "age">> for the category of line 532, and so on.  *)
(***************************************************************************)
\* the first position of sub in text, 0 when text does not hold it
Find(text, sub) ==
    LET at == {i \in 1..(Len(text) - Len(sub) + 1) : SubSeq(text, i, i + Len(sub) - 1) = sub}
    IN IF at = {} THEN 0 ELSE CHOOSE i \in at : \A j \in at : i <= j

\* sub in text
IsIn(sub, text) == Find(text, sub) # 0

\* text.endswith(sub)
EndsWith(text, sub) ==
    Len(sub) <= Len(text) /\ SubSeq(text, Len(text) - Len(sub) + 1, Len(text)) = sub

\* text.split(sub)[0]
Before(text, sub) ==
    IF IsIn(sub, text) THEN SubSeq(text, 1, Find(text, sub) - 1) ELSE text

\* text.replace(sub, "")
RECURSIVE Remove(_, _)
Remove(text, sub) ==
    IF ~IsIn(sub, text) THEN text
    ELSE LET i == Find(text, sub)
         IN SubSeq(text, 1, i - 1) \o Remove(SubSeq(text, i + Len(sub), Len(text)), sub)

\* text.strip()
RECURSIVE strip(_)
strip(text) ==
    IF text = <<>> THEN text
    ELSE IF Head(text) = " " THEN strip(Tail(text))
    ELSE IF text[Len(text)] = " " THEN strip(SubSeq(text, 1, Len(text) - 1))
    ELSE text

\* re.sub(r"\s+", " ", text)
RECURSIVE CollapseSpaces(_)
CollapseSpaces(text) ==
    IF Len(text) < 2 THEN text
    ELSE IF text[1] = " " /\ text[2] = " " THEN CollapseSpaces(Tail(text))
    ELSE <<Head(text)>> \o CollapseSpaces(Tail(text))

\* re.sub(r"\s*\([^)]*\)", "", text): every "(" that has a ")" after it goes,
\* with what is between them and with the spaces before it
RECURSIVE RemoveParens(_)
RemoveParens(text) ==
    LET open == Find(text, <<"(">>) IN
    IF open = 0 THEN text
    ELSE LET rest == SubSeq(text, open + 1, Len(text))
             close == Find(rest, <<")">>)
             RECURSIVE Kept(_)
             Kept(s) == IF s # <<>> /\ s[Len(s)] = " " THEN Kept(SubSeq(s, 1, Len(s) - 1))
                        ELSE s
         IN IF close = 0 THEN text
            ELSE Kept(SubSeq(text, 1, open - 1))
                     \o RemoveParens(SubSeq(rest, close + 1, Len(rest)))

\* re.search(r"(<years>|<months>).*(<from>|<above>)", text), lines 390, 531, 600
AgePattern(text) ==
    \E i, j \in DOMAIN text :
        i < j /\ text[i] \in {"years", "months"} /\ text[j] \in {"from", "above"}

\* any(token in text for token in [...]), the eight toy words of lines 388, 596
HasToyToken(text) ==
    \E token \in {"toy", "play", "block", "bloc", "robot", "card", "puzzle", "doll"} :
        IsIn(<<token>>, text)

\* lines 364-393: the category of one checkmark item, <<>> for None
item_category(item) ==
    IF IsIn(<<"stage">>, item) \/ item = <<"pre">> THEN <<"stage">>
    ELSE IF item = <<"formula">> THEN <<"item">>
    ELSE IF item \in {<<"regular", "formula">>, <<"special", "formula">>,
                      <<"goat", "formula">>, <<"infant", "formula">>} THEN <<"kind">>
    ELSE IF IsIn(<<"formula">>, item) THEN <<"kind">>
    ELSE IF EndsWith(item, <<"months", "~">>) \/ EndsWith(item, <<"months">>)
         THEN <<"min", "age">>
    ELSE IF item \in {<<"powder">>, <<"liquid">>, <<"thin gruel">>, <<"porridge">>,
                      <<"soft rice">>, <<"baby rice">>} THEN <<"form">>
    ELSE IF item \in {<<"ambient">>, <<"chilled">>, <<"frozen">>} THEN <<"storage">>
    ELSE IF item \in {<<"pouch">>, <<"plastic", "bottle">>, <<"bottle">>, <<"can">>}
         THEN <<"container">>
    ELSE IF IsIn(<<"baby food">>, item)
              \/ item \in {<<"seasoning">>, <<"side dish">>, <<"baby soup">>,
                           <<"handmade", "baby food">>} THEN <<"item">>
    ELSE IF item \in {<<"domestic">>, <<"imported">>} THEN <<"origin">>
    ELSE IF IsIn(<<"cert">>, item) THEN <<"cert">>
    ELSE IF HasToyToken(item) THEN <<"item">>
    ELSE IF AgePattern(item) THEN <<"target", "age">>
    ELSE IF EndsWith(item, <<"years">>) \/ EndsWith(item, <<"months">>)
         THEN <<"target", "age">>
    ELSE <<>>

\* "for item in checkmark_items: ... if category: auto_mapping[item] = category"
\* from item i of checkmark_items (items) on; a dict is a function on its keys
RECURSIVE analyze_and_create_mapping(_, _, _)
analyze_and_create_mapping(items, i, auto_mapping) ==
    IF i > Len(items) THEN auto_mapping
    ELSE LET item == items[i]
             category == item_category(item)
         IN analyze_and_create_mapping(items, i + 1,
                IF category # <<>>
                THEN [k \in DOMAIN auto_mapping \cup {item} |->
                         IF k = item THEN category ELSE auto_mapping[k]]
                ELSE auto_mapping)

\* lines 509-519
key_simplification ==
    [k \in {<<"ingredient", " ", "kind">>, <<"side dish", "kind">>} |->
        IF k = <<"ingredient", " ", "kind">> THEN <<"ingredient">> ELSE <<"kind">>]

base_mapping ==
    [k \in {<<"domestic">>, <<"imported">>, <<"for stew">>, <<"for mixing">>} |->
        IF k \in {<<"domestic">>, <<"imported">>} THEN <<"origin">> ELSE <<"use">>]

\* line 571
check_marks == {<<"white circle">>, <<"O">>, <<"o">>, <<"black circle">>}

\* lines 527-538: the key an entry is filed under
rewrite_key(original_key) ==
    LET simplified == IF original_key \in DOMAIN key_simplification
                        THEN key_simplification[original_key] ELSE original_key
        key == Remove(Remove(simplified, <<"[">>), <<"]">>)
    IN IF AgePattern(original_key) THEN <<"target", "age">>
       ELSE IF \E token \in {<<"years", "from">>, <<"years", " ", "above">>,
                             <<"years", "above">>, <<"months", " ", "above">>,
                             <<"months", "above">>} : IsIn(token, original_key)
            THEN <<"target", "age">>
       ELSE IF IsIn(<<"age">>, original_key) THEN <<"target", "age">>
       ELSE IF IsIn(<<"character">>, original_key) THEN <<"character">>
       ELSE key

\* lines 543-550: raw_clean_value
raw_clean(value) ==
    LET a == strip(Before(strip(value), <<"cert", "number", " ", "confirm">>))
        b == RemoveParens(a)
        c == strip(Remove(b, <<"maker", " ", "website">>))
        d == strip(Remove(c, <<"website">>))
        e == strip(Before(d, <<"shortcut">>))
    IN strip(CollapseSpaces(e))

\* line 551: clean_value, the glyphs taken out of raw_clean_value
remove_glyphs(text) ==
    strip(Remove(Remove(Remove(Remove(text, <<"white circle">>), <<"black circle">>),
                        <<"O">>), <<"o">>))

\* lines 584-601: the category of a key that the mapping does not hold
heuristic_category(key, original_key) ==
    IF IsIn(<<"stage">>, key) \/ key = <<"pre">> THEN <<"stage">>
    ELSE IF IsIn(<<"formula">>, key) THEN <<"item">>
    ELSE IF EndsWith(key, <<"months", "~">>) \/ EndsWith(key, <<"months">>)
         THEN <<"min", "age">>
    ELSE IF key \in {<<"powder">>, <<"liquid">>, <<"thin gruel">>, <<"porridge">>,
                     <<"soft rice">>, <<"baby rice">>} THEN <<"form">>
    ELSE IF key \in {<<"ambient">>, <<"chilled">>, <<"frozen">>} THEN <<"storage">>
    ELSE IF key \in {<<"pouch">>, <<"plastic", "bottle">>} THEN <<"container">>
    ELSE IF HasToyToken(key) THEN <<"item">>
    ELSE IF IsIn(<<"character">>, original_key) \/ IsIn(<<"character">>, key)
         THEN <<"character">>
    ELSE IF \/ AgePattern(original_key)
            \/ \E token \in {<<"years", "from">>, <<"years", " ", "above">>,
                             <<"years", "above">>, <<"months", " ", "above">>,
                             <<"months", "above">>} : IsIn(token, original_key)
            \/ key = <<"target", "age">>
         THEN <<"target", "age">>
    ELSE <<>>

\* a merge into the first part, whatever its category
add_to_category_any(parts, category, key) ==
    IF parts = <<>> THEN Append(parts, category \o <<":">> \o key)
    ELSE Append(Tail(parts), parts[1] \o <<",">> \o key)

\* lines 604-616 and 625-637: key is added to the entry of category in
\* spec_parts (parts); the first part that starts with "category:" is taken out and put back, with
\* the key added, at the end
add_to_category(parts, category, key) ==
    LET prefix == category \o <<":">>
        found == {i \in DOMAIN parts :
                     Len(prefix) <= Len(parts[i])
                        /\ SubSeq(parts[i], 1, Len(prefix)) = prefix}
    IN IF found = {} THEN Append(parts, prefix \o key)
       ELSE LET i == CHOOSE i \in found : \A j \in found : i <= j
                existing_value == SubSeq(parts[i], Find(parts[i], <<":">>) + 1,
                                         Len(parts[i]))
            IN Append(SubSeq(parts, 1, i - 1)
                          \o SubSeq(parts, i + 1, Len(parts)),
                      prefix \o existing_value \o <<",">> \o key)

\* lines 523-639: one turn of "for key, value in specs.items()", with
\* category_mapping (mapping), on the lists st of the record
normalize_entry(original_key, value, mapping, st) ==
    LET key == rewrite_key(original_key)
        raw_clean_value == raw_clean(value)
        clean_value == remove_glyphs(raw_clean_value)
        haccp == IsIn(<<"HACCP">>, key) \/ key = <<"HACCP", "cert">>
        AppendNew(list, x) == IF x \in Range(list) THEN list ELSE Append(list, x)
    IN IF strip(value) = <<>> THEN st
       ELSE IF key = value \/ original_key = value THEN st
       ELSE IF clean_value = <<>> THEN st
       ELSE IF IsIn(<<"registration", "year-month">>, key)
                  \/ IsIn(<<"registration", "day">>, key)
            THEN [st EXCEPT !.registration_date = clean_value]
       ELSE IF /\ key = <<"cert", "info">>
                     \/ (IsIn(<<"cert">>, key) /\ clean_value \in check_marks)
               /\ haccp
            THEN [st EXCEPT !.certification_info_items = AppendNew(@, key)]
       ELSE IF IsIn(<<"cert", "number">>, key)
            THEN [st EXCEPT !.certification_info_items = AppendNew(@, clean_value)]
       ELSE IF raw_clean_value \in check_marks
            THEN IF haccp
                   THEN [st EXCEPT !.certification_info_items = AppendNew(@, key)]
                 ELSE IF IsIn(<<"cert">>, key)
                   THEN [st EXCEPT !.certification_items = AppendNew(@, key)]
                 ELSE LET category == IF key \in DOMAIN mapping
                                        THEN mapping[key]
                                        ELSE heuristic_category(key, original_key)
                      IN IF category # <<>>
                           THEN [st EXCEPT !.spec_parts = add_to_category(@, category, key)]
                           ELSE st
       ELSE IF IsIn(<<"cert">>, key) /\ ~IsIn(<<"HACCP">>, key)
            THEN [st EXCEPT !.certification_items = AppendNew(@, key)]
       ELSE IF key = clean_value /\ key \in DOMAIN mapping
            THEN [st EXCEPT !.spec_parts = add_to_category(@, mapping[key], key)]
       ELSE [st EXCEPT !.spec_parts = Append(@, key \o <<":">> \o clean_value)]

\* sep.join(list)
RECURSIVE Join(_, _)
Join(list, sep) ==
    IF list = <<>> THEN <<>>
    ELSE IF Len(list) = 1 THEN list[1]
    ELSE list[1] \o sep \o Join(Tail(list), sep)

\* the closing entries with the registration date put first
closing_parts_date_first(st) ==
    (IF st.registration_date # <<>>
       THEN <<<<"registration", "year-month", "day", ":">> \o st.registration_date>>
       ELSE <<>>)
    \o (IF st.certification_items # <<>>
          THEN <<<<"cert", ":">> \o Join(st.certification_items, <<",">>)>> ELSE <<>>)
    \o (IF st.certification_info_items # <<>>
          THEN <<<<"cert", "info", ":">> \o Join(st.certification_info_items, <<",">>)>>
          ELSE <<>>)

\* lines 641-650: the entries of the certification buckets and of the
\* registration date, put after the others
closing_parts(st) ==
    (IF st.certification_items # <<>>
       THEN <<<<"cert", ":">> \o Join(st.certification_items, <<",">>)>> ELSE <<>>)
    \o (IF st.certification_info_items # <<>>
          THEN <<<<"cert", "info", ":">> \o Join(st.certification_info_items, <<",">>)>>
          ELSE <<>>)
    \o (IF st.registration_date # <<>>
          THEN <<<<"registration", "year-month", "day", ":">> \o st.registration_date>>
          ELSE <<>>)

\* the most entries of the specs of one detail page
MaxSpecs == 3

\* the header cells of the detail pages: a plain key, a key the base mapping
\* holds, with and without brackets, a certification key, a
\* registration-date key, an age key and a key that only a learned mapping
\* holds
RawKeys == {<<"origin">>, <<"domestic">>, <<"[", "domestic", "]">>, <<"KC", "cert">>,
            <<"registration", "year-month">>, <<"use", "age">>, <<"powder">>}

\* the entries extract_specs_from_detail can return for such a key: a plain
\* value, for the plain key also one with the letter o, a checkmark glyph,
\* and the key followed by a remark in parentheses (the value of a row with
\* several data cells is stored as it is read, lines 208-212)
SpecEntries ==
    {[key |-> k, value |-> <<"K", "R">>] : k \in RawKeys}
    \cup {[key |-> <<"origin">>, value |-> <<"D", "o", "m">>]}
    \cup {[key |-> k, value |-> <<"O">>] :
             k \in {<<"domestic">>, <<"KC", "cert">>, <<"registration", "year-month">>,
                    <<"powder">>}}
    \cup {[key |-> k, value |-> Remove(Remove(k, <<"[">>), <<"]">>) \o <<"(", "x", ")">>] :
             k \in {<<"domestic">>, <<"[", "domestic", "]">>, <<"powder">>}}

\* the vocabularies load_pattern_from_json can return
PatternLists == {<<>>, <<<<"powder">>, <<"domestic">>>>}

NormFrame == UNCHANGED <<checkmark_items, specs, scanVars, linkVars, pagVars,
                         priceVars, crawlVars, pageVars>>

\* lines 417 and 521: learned_mapping, and category_mapping =
\* {**base_mapping, **learned_mapping}
crawl_category_mapping ==
    /\ npc = "mapping"
    /\ LET learned_mapping == analyze_and_create_mapping(checkmark_items, 1, <<>>)
       IN category_mapping' =
              [k \in DOMAIN base_mapping \cup DOMAIN learned_mapping |->
                  IF k \in DOMAIN learned_mapping THEN learned_mapping[k]
                  ELSE base_mapping[k]]
    /\ npc' = "specs"
    /\ UNCHANGED <<spec_idx, spec_parts, certification_items,
                   certification_info_items, registration_date, detail_info>>
    /\ NormFrame

\* lines 523-639: the next entry of specs
crawl_category_spec ==
    /\ npc = "specs"
    /\ spec_idx < Len(specs)
    /\ LET st == normalize_entry(specs[spec_idx + 1].key, specs[spec_idx + 1].value,
                                 category_mapping,
                                 [spec_parts |-> spec_parts,
                                  certification_items |-> certification_items,
                                  certification_info_items |-> certification_info_items,
                                  registration_date |-> registration_date])
       IN /\ spec_parts' = st.spec_parts
          /\ certification_items' = st.certification_items
          /\ certification_info_items' = st.certification_info_items
          /\ registration_date' = st.registration_date
    /\ spec_idx' = spec_idx + 1
    /\ UNCHANGED <<npc, category_mapping, detail_info>>
    /\ NormFrame

\* lines 641-652: the closing entries and detail_info = "/".join(spec_parts)
crawl_category_detail_info ==
    /\ npc = "specs"
    /\ spec_idx = Len(specs)
    /\ spec_parts' = spec_parts \o
           closing_parts([certification_items |-> certification_items,
                          certification_info_items |-> certification_info_items,
                          registration_date |-> registration_date])
    /\ detail_info' = Join(spec_parts', <<"/">>)
    /\ npc' = "done"
    /\ UNCHANGED <<spec_idx, category_mapping, certification_items,
                   certification_info_items, registration_date>>
    /\ NormFrame

InitNormalize ==
    /\ npc = "mapping"
    /\ checkmark_items \in PatternLists
    /\ category_mapping = <<>>
    /\ specs \in {s \in SeqsUpTo(SpecEntries, MaxSpecs) :
                     \A i, j \in DOMAIN s : i # j => s[i].key # s[j].key}
    /\ spec_idx = 0
    /\ spec_parts = <<>>
    /\ certification_items = <<>>
    /\ certification_info_items = <<>>
    /\ registration_date = <<>>
    /\ detail_info = <<>>
    /\ ScanIdle
    /\ LinksIdle
    /\ PaginateIdle
    /\ PriceIdle
    /\ CrawlIdle
    /\ PageIdle

NextNormalize ==
    \/ crawl_category_mapping
    \/ crawl_category_spec
    \/ crawl_category_detail_info

SpecNormalize == InitNormalize /\ [][NextNormalize]_vars

(***************************************************************************)
(* The discovery pass: properties.                                         *)
(***************************************************************************)
\* the detail pages the scan tasks have open
ScanPagesOpen == Cardinality({t \in DOMAIN task : task[t].page})

\* C1: during a discovery run, under every interleaving of the scan tasks,
\* no more than CONCURRENT_TABS pages are open at the same time.  The pages
\* counted are the detail pages of the tasks; the listing page, open for the
\* whole run, is left out of the count.
C1_ConcurrencyBound == ScanPagesOpen <= CONCURRENT_TABS

\* C2: a task that has released its slot, on whatever path, has no page
\* open: every page a task opened is closed before the slot is released.
C2_PageClosedBeforeRelease ==
    \A t \in DOMAIN task : task[t].pc \in {"done", "failed"} => ~task[t].page

\* C3: a failure inside a scan task is swallowed: it never aborts the run
\* and never keeps the vocabulary from being written.
C3_TaskFailureSwallowed ==
    ~(spc = "aborted" /\ raisedBy = "process_product_page" /\ mapping_file = <<>>)

\* C4: within one discovery run the vocabulary only grows: no step of the
\* run, whatever the tasks return and in whatever order they finish, removes
\* a key from all_checkmark_keys.
C4_VocabularyOnlyGrows == [][all_checkmark_keys \subseteq all_checkmark_keys']_vars

\* the second listing page has been merged: its one task returned key 2,
\* key 1 came from the one task of the first page
C4_Witness ==
    /\ spc = "close"
    /\ page_idx = 2
    /\ total_scanned = 2
    /\ task[1].pc = "done" /\ task[1].found_keys = <<2>>
    /\ task[2].pc = "none"
    /\ all_checkmark_keys = {1, 2}

\* the keys that the tasks of the listing page have returned
ReturnedKeys == UNION {Range(task[t].found_keys) : t \in {u \in TaskIds : task[u].pc = "done"}}

\* C28: the discovery output written at the end of a run holds in 'items'
\* exactly the union of the key lists the scan tasks of the run returned, in
\* strictly ascending order (so without duplicates), and in 'count' the
\* number of items.  The union is built page by page: the vocabulary is
\* empty at the start, the merge after the tasks of a listing page adds
\* exactly the keys they returned, and no other step changes it.
C28_DiscoveryOutput ==
    /\ [](mapping_file # <<>> =>
            /\ \A i, j \in DOMAIN mapping_file.items :
                  i < j => mapping_file.items[i] < mapping_file.items[j]
            /\ Range(mapping_file.items) = all_checkmark_keys
            /\ mapping_file.count = Len(mapping_file.items))
    /\ [](spc = "launch" => all_checkmark_keys = {})
    /\ [][all_checkmark_keys' =
             IF spc = "gather" /\ spc' \in {"paginate", "close"}
               THEN all_checkmark_keys \cup ReturnedKeys
               ELSE all_checkmark_keys]_vars

\* the two tasks of one listing page returned key 2 and key 1, in this
\* order: the file lists key 1 before key 2
C28_Witness ==
    /\ spc = "done"
    /\ task[1].pc = "done" /\ task[1].found_keys = <<2>>
    /\ task[2].pc = "done" /\ task[2].found_keys = <<1>>
    /\ mapping_file = [count |-> 2, items |-> <<1, 2>>]

\* C29: in a discovery run with a total-items cap N > 0 no more than N
\* scans are ever started, and once N are started no listing page is
\* collected or paginated to; with a cap of 0 a run never ends on the count:
\* after the tasks of a page it stops only at the last page.
C29_ScanCap ==
    [][/\ max_total_items # 0 => total_scanned' <= max_total_items
       /\ (max_total_items # 0 /\ total_scanned >= max_total_items)
              => /\ spc' \notin {"collect", "paginate"}
                 /\ total_scanned' = total_scanned
                 /\ page_idx' = page_idx
       /\ (max_total_items = 0 /\ spc = "gather" /\ spc' = "close")
              => page_idx >= max_pages]_vars

\* a run of two pages with a cap of one: one scan was started and the run
\* ended on the first page
C29_Witness ==
    /\ spc = "done"
    /\ max_total_items = 1
    /\ max_pages = 2
    /\ page_idx = 1
    /\ total_scanned = 1
    /\ task[1].pc = "done"
    /\ task[2].pc = "none"

\* C36: while the listing is paginated or the links of a page are collected,
\* every scan task started so far has returned, with its page closed and its
\* keys in the vocabulary: none is in flight and no detail page is open
C36_ResultBarrier ==
    spc \in {"paginate", "collect"} =>
        \A t \in TaskIds :
            /\ task[t].pc \in {"none", "done"}
            /\ ~task[t].page
            /\ Range(task[t].found_keys) \subseteq all_checkmark_keys

\* the listing is paginated after a page whose tasks, more than the gate
\* admits at once, brought keys
C36_Witness ==
    /\ spc = "paginate"
    /\ Cardinality({t \in TaskIds : task[t].pc = "done"}) > CONCURRENT_TABS
    /\ \E t \in TaskIds : task[t].found_keys # <<>>

(***************************************************************************)
(* The link collectors: properties.                                        *)
(***************************************************************************)
SelectorsOf(c) ==
    IF c = "collect_product_links_from_category" THEN selectors_crawl ELSE selectors_learn

\* the anchors a collector takes for product links
Accepted(c, a) ==
    /\ a.href # NoHref
    /\ ~IsJavascript(a.href)
    /\ IF c = "collect_product_links_from_category"
         THEN (HasDanawa(a.href) \/ StartsWithSlash(a.href)) /\ ~IsLabel(a.text)
         ELSE HasDanawa(a.href)

\* the anchors in the order a collector meets them: selector by selector,
\* the anchors of one selector in document order
RECURSIVE Encounter(_, _, _)
Encounter(d, sels, i) ==
    IF i > Len(sels) THEN <<>>
    ELSE Locator(d, sels[i]) \o Encounter(d, sels, i + 1)

\* where a URL is first met as a product link, 0 when it never is
FirstMet(c, enc, href) ==
    LET at == {k \in DOMAIN enc : enc[k].href = href /\ Accepted(c, enc[k])}
    IN IF at = {} THEN 0 ELSE CHOOSE k \in at : \A m \in at : k <= m

NoDuplicates(s) == \A i, j \in DOMAIN s : i # j => s[i] # s[j]

Winner(d, sels) ==
    LET matching == {i \in DOMAIN sels : Len(Locator(d, sels[i])) > 0}
    IN IF matching = {} THEN 0 ELSE CHOOSE i \in matching : \A m \in matching : i <= m

\* C6: selector priority, not union: every returned link comes from the
\* first selector that matches an anchor, and no later selector is consulted.
C6_SelectorPriority ==
    lpc = "returned" =>
        LET sels == SelectorsOf(collector)
            w == Winner(dom, sels)
        IN IF w = 0 THEN links = <<>> /\ consulted = {}
           ELSE /\ consulted = {sels[w]}
                /\ \A i \in DOMAIN links :
                      \E k \in DOMAIN Locator(dom, sels[w]) :
                          Locator(dom, sels[w])[k].href = links[i]

(***************************************************************************)
(* The pagination controllers: properties.                                 *)
(***************************************************************************)
\* a strategy succeeded: its click, or its call of movePage, and the wait
\* after it returned
StrategySucceeded ==
    \E i \in DOMAIN plog :
        /\ plog[i].op \in {"btn_wait", "fn_wait", "btn2_wait"}
        /\ plog[i].out = "ok"

\* the browser of the second call is the browser of the first: no call of
\* the second call raised, and movePage is exposed in both calls or in none
SameBrowser ==
    /\ \A j \in DOMAIN plog : plog[j].out # "raise"
    /\ \A i \in DOMAIN pfirst.plog, j \in DOMAIN plog :
          (pfirst.plog[i].op = "typeof" /\ plog[j].op = "typeof")
              => pfirst.plog[i].out = plog[j].out

\* C7: advance(N) called twice in a row, the second call with the listing
\* already on page N (where the first call, returning true, left it),
\* returns true the second time too and raises nothing.
C7_SecondAdvanceTrue ==
    /\ ppc # "raised"
    /\ (ppc = "returned" /\ pcalls = 2 /\ pfirst.result = "True"
           /\ pstart = page_num /\ SameBrowser)
          => presult = "True"

\* C8: the controllers never raise to the caller: whatever the browser
\* answers, a call returns a boolean, and false when no strategy succeeded.
C8_NeverRaises ==
    /\ ppc # "raised"
    /\ ppc = "returned" =>
          /\ presult \in {"True", "False"}
          /\ ~StrategySucceeded => presult = "False"

\* a click on the numbered button timed out and the call returned false
C8_Witness ==
    /\ ppc = "returned"
    /\ presult = "False"
    /\ Len(plog) > 0
    /\ plog[Len(plog)] = [op |-> "btn_click", out |-> "raise"]

\* the first call of each strategy of a controller
Strategies(c) ==
    IF c = "paginate_category" THEN {"btn_count", "typeof", "next_count"}
    ELSE {"typeof", "btn_count"}

\* C9: advance returns false only after every strategy of the chain has been
\* attempted: a strategy that throws does not keep the next one from being
\* attempted.
C9_FalseAfterEveryStrategy ==
    (ppc = "returned" /\ presult = "False")
        => Strategies(controller) \subseteq {plog[i].op : i \in DOMAIN plog}

\* the position of a browser call in a chain of calls
Rank(chain, op) == CHOOSE k \in DOMAIN chain : chain[k] = op

\* the calls of plog were made in the order of chain, none twice, and none
\* after a strategy had succeeded
FollowsChain(chain) ==
    /\ \A i \in DOMAIN plog : plog[i].op \in Range(chain)
    /\ \A i, j \in DOMAIN plog :
          i < j => /\ Rank(chain, plog[i].op) < Rank(chain, plog[j].op)
                   /\ ~(plog[i].op \in {"btn_wait", "fn_wait", "btn2_wait"}
                        /\ plog[i].out = "ok")

\* C10, as stated: paginate_category tries the direct page-change function
\* first, the numbered button second, the 'next group' control with one
\* retry of the button third, a later strategy only if no earlier succeeded.
C10_FunctionFirst ==
    controller = "paginate_category" =>
        FollowsChain(<<"typeof", "fn_call", "fn_wait",
                       "btn_count", "btn_click", "btn_wait",
                       "next_count", "next_click", "next_wait",
                       "btn2_count", "btn2_click", "btn2_wait">>)

\* C10, amended: paginate_category tries the numbered button first, the
\* direct page-change function second, the 'next group' control with one
\* retry of the button third, a later strategy only if no earlier succeeded.
C10_ButtonFirst ==
    controller = "paginate_category" =>
        FollowsChain(<<"btn_count", "btn_click", "btn_wait",
                       "typeof", "fn_call", "fn_wait",
                       "next_count", "next_click", "next_wait",
                       "btn2_count", "btn2_click", "btn2_wait">>)

\* all three strategies were tried, the retry of the button succeeded
C10_Witness ==
    /\ controller = "paginate_category"
    /\ ppc = "returned"
    /\ presult = "True"
    /\ Len(plog) = 8
    /\ plog[1] = [op |-> "btn_count", out |-> "zero"]
    /\ plog[2] = [op |-> "typeof", out |-> "other"]
    /\ plog[8] = [op |-> "btn2_wait", out |-> "ok"]

\* C11: whenever a controller returns false, the listing shows what it
\* showed before the call: no click or page-change call issued during the
\* failed call has changed the listing.
C11_FailedAdvanceLeavesListing ==
    (ppc = "returned" /\ presult = "False") => listing = pstart

(***************************************************************************)
(* The full crawl's records: properties.                                   *)
(***************************************************************************)
\* C12: in every record of the full crawl min_price and max_price are both
\* absent, or both present with min_price <= max_price, whatever price items
\* and min/max inputs the page shows.
C12_PriceRange ==
    \A i \in DOMAIN row :
        \/ row[i].min_price = <<>> /\ row[i].max_price = <<>>
        \/ /\ Len(row[i].min_price) = 1
           /\ Len(row[i].max_price) = 1
           /\ row[i].min_price[1] <= row[i].max_price[1]

\* no price item was parseable, the inputs were read instead, and the min
\* input holds the larger number
C12_Witness ==
    /\ xpc = "done"
    /\ idx = Len(price_items)
    /\ idx > 0
    /\ min_input = [kind |-> "text", text |-> <<"1", ",", "2">>]
    /\ max_input = [kind |-> "text", text |-> <<"9">>]
    /\ row = <<[min_price |-> <<9>>, max_price |-> <<12>>]>>

\* C13: after any full crawl run no two records of the result list have the
\* same url, whatever listing pages, link lists and pagination outcomes the
\* browser produces.
C13_UniqueUrls == NoDuplicates(all_rows)

(***************************************************************************)
(* The attribute normalizer: properties.  An entry of the attribute string *)
(* is a part "category:value,value": CategoryOf is what stands before its  *)
(* first colon, ValuesOf the comma-separated values after it.              *)
(***************************************************************************)
CategoryOf(part) == Before(part, <<":">>)

RECURSIVE SplitAt(_, _)
SplitAt(text, sep) ==
    IF ~IsIn(sep, text) THEN <<text>>
    ELSE <<Before(text, sep)>>
             \o SplitAt(SubSeq(text, Find(text, sep) + Len(sep), Len(text)), sep)

ValuesOf(part) == SplitAt(SubSeq(part, Find(part, <<":">>) + 1, Len(part)), <<",">>)

\* the lists of a record before its first entry
NoEntryYet ==
    [spec_parts |-> <<>>, certification_items |-> <<>>,
     certification_info_items |-> <<>>, registration_date |-> <<>>]

\* the category the normalizer's tables give a key: the mapping first, the
\* heuristics after it
TableCategory(e) ==
    LET key == rewrite_key(e.key)
    IN IF key \in DOMAIN category_mapping THEN category_mapping[key]
       ELSE heuristic_category(key, e.key)

\* C14: the merge is idempotent: after normalizing any sequence of raw
\* entries, two raw keys that are rewritten to the same stored value under
\* the same category included, no category's comma-joined value list holds
\* the same value twice.
C14_NoValueTwice ==
    npc = "done" => \A i \in DOMAIN spec_parts : NoDuplicates(ValuesOf(spec_parts[i]))

\* C15: category resolution is deterministic: with the same mapping, an
\* entry is filed under the category it is filed under when it is the only
\* entry of its record, whatever entries were processed before it.
C15_CategoryDeterministic ==
    [][spec_idx' = spec_idx + 1 =>
         LET e == specs[spec_idx']
             alone == normalize_entry(e.key, e.value, category_mapping, NoEntryYet).spec_parts
         IN IF alone = <<>> THEN spec_parts' = spec_parts
            ELSE /\ spec_parts' # <<>>
                 /\ spec_parts' # spec_parts
                 /\ CategoryOf(spec_parts'[Len(spec_parts')]) = CategoryOf(alone[1])]_vars

\* an entry that the base mapping files under "origin" was processed after
\* an entry with the plain key "origin"
C15_Witness ==
    /\ npc = "done"
    /\ specs = <<[key |-> <<"origin">>, value |-> <<"K", "R">>],
                 [key |-> <<"domestic">>, value |-> <<"domestic", "(", "x", ")">>]>>
    /\ spec_parts = <<<<"origin", ":", "K", "R", ",", "domestic">>>>

\* C16, its first case: for every raw entry whose value is a checkmark glyph
\* and whose key resolves to a category, the key itself is stored as a value
\* under that category in the attribute string.
C16_GlyphStoresKey ==
    npc = "done" =>
        \A i \in DOMAIN specs :
            (specs[i].value \in check_marks /\ TableCategory(specs[i]) # <<>>)
                => \E p \in DOMAIN spec_parts :
                      /\ CategoryOf(spec_parts[p]) = TableCategory(specs[i])
                      /\ rewrite_key(specs[i].key) \in Range(ValuesOf(spec_parts[p]))

\* C17: a row whose header is a certification-like key and whose data cell
\* is a checkmark glyph ends with the key listed in the certification entry
\* of the record, and with no generic "key:value" entry.
C17_CertificationBucket ==
    npc = "done" =>
        \A i \in DOMAIN specs :
            (IsIn(<<"cert">>, specs[i].key) /\ specs[i].value \in check_marks)
                => /\ \E p \in DOMAIN spec_parts :
                         /\ CategoryOf(spec_parts[p]) = <<"cert">>
                         /\ specs[i].key \in Range(ValuesOf(spec_parts[p]))
                   /\ \A p \in DOMAIN spec_parts :
                         CategoryOf(spec_parts[p]) # rewrite_key(specs[i].key)

\* C18: for a detail page whose only row is one header K and one plain data
\* cell V (no glyph, no boilerplate phrase, no parentheses, V # K), the
\* attribute string is exactly one entry "category:V", the text of V
\* unchanged.  Stated for the headers that are no certification keys (of
\* those the certification entry lists the key, not V).
C18_PlainValueUnchanged ==
    (/\ npc = "done"
     /\ Len(specs) = 1
     /\ specs[1].value \in {<<"K", "R">>, <<"D", "o", "m">>}
     /\ ~IsIn(<<"cert">>, specs[1].key))
        => /\ Len(spec_parts) = 1
           /\ CategoryOf(spec_parts[1]) # <<>>
           /\ detail_info = CategoryOf(spec_parts[1]) \o <<":">> \o specs[1].value

\* an entry the normalizer files as a registration date (line 556)
IsRegistrationKey(key) ==
    IsIn(<<"registration", "year-month">>, key) \/ IsIn(<<"registration", "day">>, key)

C20_OneEntryPerCategory ==
    npc = "done" =>
        \A p, q \in DOMAIN spec_parts :
            p # q => CategoryOf(spec_parts[p]) # CategoryOf(spec_parts[q])

\* C21: the entries of the attribute string keep the order in which their
\* categories were first seen: a turn of the loop over the raw entries, a
\* merge into an existing category included, leaves every two categories
\* that already have an entry in the order they had.
C21_FirstSeenOrder ==
    [][spec_idx' = spec_idx + 1 =>
         \A p, q \in DOMAIN spec_parts :
             p < q => \E p2, q2 \in DOMAIN spec_parts' :
                         /\ p2 < q2
                         /\ CategoryOf(spec_parts'[p2]) = CategoryOf(spec_parts[p])
                         /\ CategoryOf(spec_parts'[q2]) = CategoryOf(spec_parts[q])]_vars

(***************************************************************************)
(* The full crawl: properties.                                             *)
(***************************************************************************)
\* the loop over the listing pages has ended
CrawlStopped == cpc \in {"write", "close", "done", "raised", "aborted"}

\* a step after which the crawl is still ended: no listing page is
\* processed, no detail page is opened and no pagination is attempted in it
NothingMoreCrawled ==
    /\ cpc' \in {"write", "close", "done", "raised", "aborted"}
    /\ all_rows' = all_rows
    /\ product_links' = product_links
    /\ page_index' = page_index
    /\ shown' = shown
    /\ advance_result' = advance_result
    /\ detail_page_open' => detail_page_open

\* the total-items cap is set and reached
CapReached == crawl_max_total_items # 0 /\ Len(all_rows) >= crawl_max_total_items

\* C22: when the link collector returns an empty list for a listing page,
\* the crawl stops without error: the step that gets the empty list goes to
\* the write of the output with nothing else changed, after that no listing
\* page is processed, no detail page is opened and no pagination attempted,
\* and a write that returns has written the records collected so far.
C22_EmptyListStops ==
    [][/\ (cpc = "collect" /\ cpc' # "except" /\ product_links' = <<>>)
              => /\ cpc' = "write"
                 /\ all_rows' = all_rows
                 /\ page_index' = page_index
                 /\ shown' = shown
                 /\ advance_result' = advance_result
                 /\ detail_page_open' = detail_page_open
       /\ CrawlStopped => NothingMoreCrawled
       /\ (cpc = "write" /\ cpc' = "close") => output_csv' = <<all_rows>>]_vars

\* the second listing page gave no links: the record of the first page is
\* the output
C22_Witness ==
    /\ cpc = "done"
    /\ page_index = 1
    /\ product_links = <<>>
    /\ Len(all_rows) = 1
    /\ output_csv = <<all_rows>>

\* C23: whenever paginate_category returns False for an advance to the next
\* listing page, on whatever path the advance is attempted, the crawl ends:
\* the step goes to the write of the output, after that no listing page is
\* processed and no detail page opened, and the records are written.
C23_FailedAdvanceStops ==
    [][/\ (cpc \in {"advance", "except"} /\ advance_result' = "False") => cpc' = "write"
       /\ CrawlStopped => NothingMoreCrawled
       /\ (cpc = "write" /\ cpc' = "close") => output_csv' = <<all_rows>>]_vars

\* C24: when the listing tab has drifted off the listing after an item of
\* listing page page_index + 1, the crawl goes on to the next item, or to the
\* advance, only with the listing back on that page.
C24_DriftRecovered ==
    [][(cpc = "drift" /\ shown = 0) => shown' = page_index + 1]_vars

\* C25: a failure in one detail item is caught at the item boundary: no
\* step of the item loop leaves the loop with an exception, the loop takes
\* every link of the page unless the page is done or the cap is reached, and
\* when it takes the next link the detail page of the item is closed.
C25_ItemFailureCaught ==
    [][(cpc \in {"item", "detail", "drift"}) =>
          /\ cpc' \in {"item", "detail", "drift", "after_items"}
          /\ link_idx' \in {link_idx, link_idx + 1}
          /\ (cpc = "item" /\ cpc' = "after_items")
                => (link_idx > Len(product_links) \/ CapReached)
          /\ link_idx' = link_idx + 1 => ~detail_page_open']_vars

\* C26, for the full crawl: when the file of pattern_json is missing or
\* cannot be read, the run is aborted before a browser is launched or a page
\* opened.
C26_InputFailureAborts ==
    pattern_json \in {"missing", "unreadable"}
        => (cpc \in {"load", "aborted"} /\ ~crawl_browser_open)

\* C27: besides the listing tab at most one page is open during the full
\* crawl: a detail page is opened only when the detail page before it, on
\* whatever path its item ended, is closed.
C27_OneDetailPage ==
    [][(cpc = "item" /\ cpc' = "detail") => ~detail_page_open]_vars

\* C30: with max_total_items = N > 0 all_rows never holds more than N rows,
\* and once it holds N rows no detail page is opened and no listing page is
\* collected or advanced to; with 0 the item loop ends only at the end of
\* the page's links and the crawl only at its last page, at an empty page or
\* at a failed advance.
C30_TotalItemsCap ==
    [][/\ crawl_max_total_items # 0 => Len(all_rows') <= crawl_max_total_items
       /\ CapReached => /\ cpc' \notin {"detail", "collect", "advance", "except"}
                        /\ all_rows' = all_rows
                        /\ page_index' = page_index
       /\ (crawl_max_total_items = 0 /\ cpc = "item" /\ cpc' = "after_items")
              => link_idx > Len(product_links)
       /\ (crawl_max_total_items = 0 /\ cpc = "after_items" /\ cpc' = "write")
              => page_index >= crawl_max_pages - 1]_vars

\* a crawl of two pages with a cap of one: the first page had two links, the
\* second link was not visited and the second page not asked for
C30_Witness ==
    /\ cpc = "done"
    /\ crawl_max_total_items = 1
    /\ crawl_max_pages = 2
    /\ page_index = 0
    /\ Len(product_links) = 2
    /\ link_idx = 2
    /\ Len(all_rows) = 1
    /\ output_csv = <<all_rows>>

(***************************************************************************)
(* The full crawl: termination.                                            *)
(***************************************************************************)
\* crawl_category is one thread of control and every browser call in it
\* returns or raises within its timeout, so the step that is enabled is
\* taken
SpecCrawlFair == SpecCrawl /\ WF_vars(NextCrawl)

\* a run of crawl_category comes to its end, by its last statement or by an
\* exception that leaves it, with no more listing pages begun than max_pages
C31_Terminates ==
    /\ [](page_index <= crawl_max_pages)
    /\ <>(cpc \in {"done", "aborted"})

\* C31: every run of the full crawl terminates after at most max_pages
\* listing pages and reaches the step that writes the collected records
C31_TerminatesAtWrite ==
    /\ [](page_index <= crawl_max_pages)
    /\ <>(cpc \in {"done", "aborted"})
    /\ <>(cpc = "write")

(***************************************************************************)
(* crawl_stroller.py: extract_specs_from_detail (lines 180-235).  The dict *)
(* specs of the function is page_specs, a function on its keys; the texts  *)
(* of the cells are sequences of symbols as above.                         *)
(***************************************************************************)
\* the rows of a page's tables that are drawn
MaxRows == 2

\* the th cells, and the td cells, of a row
MaxCells == 2

\* ["white circle", "O", "o", "black circle"], lines 209 (and 551)
Glyphs == {<<"white circle">>, <<"O">>, <<"o">>, <<"black circle">>}

\* the values of the comma-joined text stored for a key
StoredValues(text) ==
    LET parts == SplitAt(text, <<",">>) IN {strip(parts[i]) : i \in DOMAIN parts}

\* lines 183-198, on the dict d
add_or_append_spec(d, key, value) ==
    IF key = value THEN d
    ELSE IF key \in DOMAIN d
         THEN IF d[key] = value THEN d
              ELSE IF IsIn(value, d[key]) THEN d
              ELSE IF IsIn(d[key], value) THEN d
              ELSE IF strip(value) \notin StoredValues(d[key])
                   THEN [d EXCEPT ![key] = d[key] \o <<",">> \o value]
              ELSE d
    ELSE [k \in DOMAIN d \cup {key} |-> IF k = key THEN value ELSE d[k]]

\* lines 205-210: "for td in tds", from cell i to cell n; an exception of
\* inner_text ends the loop there (line 211)
RECURSIVE parent_key_values(_, _, _, _, _)
parent_key_values(d, parent_key, tds, i, n) ==
    IF i > n THEN d
    ELSE LET value == strip(tds[i])
         IN parent_key_values(
                IF value # <<>> /\ value \notin Glyphs
                THEN add_or_append_spec(d, parent_key, value) ELSE d,
                parent_key, tds, i + 1, n)

\* lines 222-224: the value of the pair
pair_value(text) ==
    LET a == strip(Before(strip(text), <<"cert", "number", " ", "check">>))
        b == strip(Before(a, <<"shortcut">>))
    IN RemoveParens(b)

\* lines 214-229: "for i in range(min(len(ths), len(tds)))", from pair i on;
\* the pairs of failed raise in inner_text and are passed over (line 228)
RECURSIVE th_td_pairs(_, _, _, _, _)
th_td_pairs(d, ths, tds, i, failed) ==
    IF i > Len(ths) \/ i > Len(tds) THEN d
    ELSE LET key == strip(ths[i])
             value == pair_value(tds[i])
         IN th_td_pairs(
                IF i \notin failed /\ key # <<>> /\ value # <<>>
                THEN add_or_append_spec(d, key, value) ELSE d,
                ths, tds, i + 1, failed)

\* the texts a th cell and a td cell are drawn from
ThTexts == {<<"K">>, <<>>}

TdTexts == {<<>>, <<"white circle">>, <<"A">>, <<"B">>, <<"A", ",", "B">>,
            <<"B", ",", "A">>, <<"A", " ", "(", "x", ")">>}

TableRows == [ths : SeqsUpTo(ThTexts, MaxCells), tds : SeqsUpTo(TdTexts, MaxCells)]

ExtractFrame == UNCHANGED <<scanVars, linkVars, pagVars, priceVars, crawlVars, normVars,
                            trendVars, imageVars>>

\* lines 200-232: one tr of all_tr_elements: the one-header row (n of its td
\* cells read before an exception, all of them when none is raised), then
\* the th/td pairs
extract_specs_tr ==
    /\ epc = "rows"
    /\ tr_count < MaxRows
    /\ \E r \in TableRows, n \in 0..MaxCells, failed \in SUBSET (1..MaxCells) :
          /\ n <= Len(r.tds)
          /\ failed \subseteq 1..Len(r.tds)
          /\ tr' = r
          /\ LET d == IF Len(r.ths) = 1 /\ Len(r.tds) > 1
                      THEN parent_key_values(page_specs, strip(r.ths[1]), r.tds, 1, n)
                      ELSE page_specs
             IN page_specs' = th_td_pairs(d, r.ths, r.tds, 1, failed)
    /\ tr_count' = tr_count + 1
    /\ UNCHANGED epc
    /\ ExtractFrame

\* line 234: return specs
extract_specs_return ==
    /\ epc = "rows"
    /\ epc' = "returned"
    /\ UNCHANGED <<tr, tr_count, page_specs>>
    /\ ExtractFrame

InitExtract ==
    /\ epc = "rows"
    /\ tr = [ths |-> <<>>, tds |-> <<>>]
    /\ tr_count = 0
    /\ page_specs = <<>>
    /\ ScanIdle
    /\ LinksIdle
    /\ PaginateIdle
    /\ PriceIdle
    /\ CrawlIdle
    /\ NormIdle
    /\ TrendIdle
    /\ ImagesIdle

NextExtract ==
    \/ extract_specs_tr
    \/ extract_specs_return

SpecExtract == InitExtract /\ [][NextExtract]_vars

(***************************************************************************)
(* extract_specs_from_detail: properties                                   *)
(***************************************************************************)
\* whether text holds a checkmark glyph
HoldsGlyph(text) == \E g \in Glyphs : IsIn(g, text)

\* a row with exactly one header cell and several data cells
OneHeaderRow(r) == Len(r.ths) = 1 /\ Len(r.tds) > 1

\* C32: after a row with exactly one header cell and several data cells is
\* processed, the value stored for its key holds no checkmark glyph, wherever
\* the checkmark cell stands in the row
C32_NoGlyphStored ==
    [][(epc = "rows" /\ tr_count' = tr_count + 1 /\ OneHeaderRow(tr')
           /\ strip(tr'.ths[1]) \in DOMAIN page_specs')
          => ~HoldsGlyph(page_specs'[strip(tr'.ths[1])])]_vars

\* the values add_or_append_spec is called with: the stripped cells, the
\* values of the pairs
InsertedValues == {strip(t) : t \in TdTexts} \cup {pair_value(t) : t \in TdTexts}

\* no value stands twice in the comma-joined text
NoValueTwice(text) ==
    LET parts == SplitAt(text, <<",">>)
    IN \A i, j \in DOMAIN parts : i # j => strip(parts[i]) # strip(parts[j])

\* an insertion that finds the value equal to, within, or around the stored
\* value changes nothing, and a second insertion of a value changes nothing
C33_InsertTwiceIsOnce ==
    \A key \in ThTexts, value \in InsertedValues \ {<<>>} :
        LET once == add_or_append_spec(page_specs, key, value)
        IN /\ add_or_append_spec(once, key, value) = once
           /\ (key \in DOMAIN page_specs
                 /\ (IsIn(value, page_specs[key]) \/ IsIn(page_specs[key], value)))
                => once = page_specs

\* C33: after any insertions for a key its comma-joined value list holds no
\* value twice; an insertion of a value equal to, within or around the stored
\* value changes nothing, so the same value inserted twice is inserted once
C33_Deduplicated ==
    /\ \A key \in DOMAIN page_specs : NoValueTwice(page_specs[key])
    /\ C33_InsertTwiceIsOnce

(***************************************************************************)
(* crawl_stroller.py: extract_price_trend (lines 126-177).  A period       *)
(* control is the li[data-attr] at its place in #selectGraphPeriod: its    *)
(* place stands for its data-attr, the key of the period.                  *)
(***************************************************************************)
\* the period controls of a page
MaxPeriods == 3

\* what page.evaluate gives once a period is asked for: the points of the
\* chart, null (no chart, no echarts, no instance), an empty list, or an
\* exception of the script
ChartStates == {"points", "null", "empty", "raises"}

PeriodItems == SeqsUpTo([disabled : BOOLEAN, chart : ChartStates], MaxPeriods)

TrendFrame == UNCHANGED <<period_items, scanVars, linkVars, pagVars, priceVars,
                          crawlVars, normVars, extractVars, imageVars>>

\* lines 129-132: the locator and its count; no control, or an exception
\* (line 175), returns the empty dict
extract_price_trend_count ==
    /\ tpc = "count"
    /\ \/ /\ tpc' = IF Len(period_items) = 0 THEN "returned" ELSE "item"
          /\ UNCHANGED trend_raised
       \/ /\ tpc' = "returned"
          /\ trend_raised' = "count"
    /\ UNCHANGED <<period_idx, clicked, trend_data>>
    /\ TrendFrame

\* lines 133-174: one period control; "for idx in range(count)" ends at
\* line 177.  get_attribute or page.evaluate raising goes to line 175, which
\* returns what trend_data holds; item.click raising is passed over
extract_price_trend_item ==
    /\ tpc = "item"
    /\ IF period_idx >= Len(period_items)
         THEN /\ tpc' = "returned"
              /\ UNCHANGED <<period_idx, clicked, trend_data, trend_raised>>
         ELSE LET item == period_items[period_idx + 1] IN
              \/ /\ trend_raised' = "get_attribute"
                 /\ tpc' = "returned"
                 /\ UNCHANGED <<period_idx, clicked, trend_data>>
              \/ /\ item.disabled
                 /\ period_idx' = period_idx + 1
                 /\ UNCHANGED <<tpc, clicked, trend_data, trend_raised>>
              \/ /\ ~item.disabled
                 /\ clicked' = clicked \cup {period_idx}
                 /\ IF item.chart = "raises"
                      THEN /\ trend_raised' = "evaluate"
                           /\ tpc' = "returned"
                           /\ UNCHANGED <<period_idx, trend_data>>
                      ELSE /\ period_idx' = period_idx + 1
                           /\ trend_data' = IF item.chart = "points"
                                              THEN trend_data \cup {period_idx}
                                              ELSE trend_data
                           /\ UNCHANGED <<tpc, trend_raised>>
    /\ TrendFrame

InitTrend ==
    /\ tpc = "count"
    /\ period_items \in PeriodItems
    /\ period_idx = 0
    /\ clicked = {}
    /\ trend_data = {}
    /\ trend_raised = "none"
    /\ ScanIdle
    /\ LinksIdle
    /\ PaginateIdle
    /\ PriceIdle
    /\ CrawlIdle
    /\ NormIdle
    /\ ExtractIdle
    /\ ImagesIdle

NextTrend ==
    \/ extract_price_trend_count
    \/ extract_price_trend_item

SpecTrend == InitTrend /\ [][NextTrend]_vars

(***************************************************************************)
(* extract_price_trend: properties                                         *)
(***************************************************************************)
\* the period at place i (from 0, as idx) of the page
Period(i) == period_items[i + 1]

Periods == {i - 1 : i \in DOMAIN period_items}

\* a disabled control is never clicked and never a key of trend_data
C34_DisabledNeverActivated ==
    \A i \in Periods : Period(i).disabled => i \notin clicked /\ i \notin trend_data

\* an unreadable period is no key of trend_data
C34_UnreadableOmitted ==
    \A i \in Periods : Period(i).chart # "points" => i \notin trend_data

\* C34: when extract_price_trend has returned, with no failure but of the
\* chart's script, no disabled control was activated or is in the mapping,
\* no period whose chart cannot be read is in it, and every enabled period
\* whose chart can be read is
C34_PartialTrend ==
    /\ C34_DisabledNeverActivated
    /\ C34_UnreadableOmitted
    /\ (tpc = "returned" /\ trend_raised \in {"none", "evaluate"})
          => \A i \in Periods :
                (~Period(i).disabled /\ Period(i).chart = "points") => i \in trend_data

(***************************************************************************)
(* The full crawl: pacing.                                                 *)
(***************************************************************************)
\* the bases the source writes out: slow_scroll's default (line 47), the
\* delay of extract_price_trend (line 143), those of lines 679-719
LiteralBases == {300, 400, 1000, 1500}

\* C35: when a detail page is about to be navigated to, a pacing delay has
\* run since the navigation to the detail page before it, and every pacing
\* delay with base b lasts at least b and at most 2 * b milliseconds
C35_PacedBetweenItems ==
    /\ cpc = "detail" => slept # <<>>
    /\ slept # <<>> => (slept[1].base = base_delay_ms
                          /\ slept[1].base <= slept[1].ms
                          /\ slept[1].ms <= 2 * slept[1].base)
    /\ cpc = "load" => \A b \in LiteralBases : \A d \in human_delay(b) :
                           b <= d.ms /\ d.ms <= 2 * b

\* a second detail page is about to be navigated to, after a delay that had
\* a jitter
C35_Witness ==
    /\ cpc = "detail"
    /\ link_idx > 1 \/ page_index > 0
    /\ slept # <<>>
    /\ slept[1].ms > slept[1].base

(***************************************************************************)
(* The two orchestrators: a run of run_async_scan or of crawl_category.    *)
(***************************************************************************)
\* the steps of the orchestrator that runs
NextRuns ==
    \/ spc # "idle" /\ NextScan
    \/ cpc # "idle" /\ NextCrawl

SpecRuns == (InitScan \/ InitCrawl) /\ [][NextRuns]_vars

\* C37: when a run of either orchestrator has ended, by its last statement
\* or by an exception, the browser it launched is closed
C37_BrowserClosedAtEnd ==
    /\ spc \in {"done", "aborted"} => ~browser_open
    /\ cpc \in {"done", "aborted"} => ~crawl_browser_open

\* the discovery pass has ended by the exception of a scan task, after its
\* browser was launched and tasks were started
C37_Witness ==
    /\ spc = "aborted"
    /\ raisedBy = "process_product_page"
    /\ \E t \in TaskIds : task[t].pc = "failed"
    /\ ~browser_open

(***************************************************************************)
(* add_images_to_csv.py: add_images_to_csv (lines 78-159).  A row of the   *)
(* file is the dict csv.DictReader makes of it, a function on the columns; *)
(* a cell is a text, the sequence of its symbols.                          *)
(***************************************************************************)
\* the rows of the input file
MaxImageRows == 2

\* the arguments url_column and image_column, at their defaults (lines 83-84)
url_column == "URL"

image_column == "image"

\* the headers drawn: with both columns, without an image column, without a
\* URL column
ImageFieldnames == {<<"title", "URL", "image">>, <<"URL", "title">>, <<"title", "image">>}

\* the cells drawn for a column: a URL or an image cell is empty, blank or
\* filled
ImageCells(col) == IF col = "title" THEN {<<"t">>} ELSE {<<>>, <<" ">>, <<"x">>}

\* the rows DictReader can give for the header f: one cell per column
ImageRows(f) ==
    {r \in [Range(f) -> {<<>>, <<" ">>, <<"x">>, <<"t">>}] :
        \A col \in Range(f) : r[col] \in ImageCells(col)}

\* row.get(key, "")
Get(r, key) == IF key \in DOMAIN r THEN r[key] ELSE <<>>

\* row[key] = value
Put(r, key, value) == [k \in DOMAIN r \cup {key} |-> IF k = key THEN value ELSE r[k]]

ImageFrame == UNCHANGED <<fieldnames, input_rows, scanVars, linkVars, pagVars,
                          priceVars, crawlVars, normVars, extractVars, trendVars>>

\* lines 87-106: the header and the rows are read; without the URL column
\* the function returns (line 96), else the browser is opened, and an
\* exception of open_new_context leaves the function
add_images_to_csv_read ==
    /\ ipc = "read"
    /\ IF url_column \notin Range(fieldnames)
         THEN /\ ipc' = "returned"
              /\ UNCHANGED rows
         ELSE /\ rows' = input_rows
              /\ ipc' \in {"rows", "aborted"}
    /\ UNCHANGED <<row_idx, visited, output_file>>
    /\ ImageFrame

\* a row that is visited whatever its image cell holds
add_images_to_csv_row_any_image ==
    /\ ipc = "rows"
    /\ IF row_idx >= Len(rows)
         THEN /\ ipc' = "write"
              /\ UNCHANGED <<rows, row_idx, visited>>
         ELSE LET i == row_idx + 1
                  url == strip(Get(rows[i], url_column))
              IN /\ row_idx' = i
                 /\ UNCHANGED ipc
                 /\ IF url = <<>>
                      THEN UNCHANGED <<rows, visited>>
                      ELSE \E went \in BOOLEAN, image_url \in {<<>>, <<"y">>} :
                              /\ ~went => image_url = <<>>
                              /\ visited' = IF went THEN visited \cup {i} ELSE visited
                              /\ rows' = [rows EXCEPT ![i] = Put(@, image_column, image_url)]
    /\ UNCHANGED output_file
    /\ ImageFrame

\* lines 108-145: one row of "for idx, row in enumerate(rows, 1)", and the
\* end of the loop.  A row with no URL or with an image is passed; for
\* another one context.new_page() or set_default_timeout raises (went is
\* FALSE, line 145), or page.goto is called and the image cell gets what
\* extract_image_url returned, or "" when the visit, page.close() or the
\* delay raised (lines 135, 138, 145)
add_images_to_csv_row ==
    /\ ipc = "rows"
    /\ IF row_idx >= Len(rows)
         THEN /\ ipc' = "write"
              /\ UNCHANGED <<rows, row_idx, visited>>
         ELSE LET i == row_idx + 1
                  url == strip(Get(rows[i], url_column))
              IN /\ row_idx' = i
                 /\ UNCHANGED ipc
                 /\ IF url = <<>> \/ strip(Get(rows[i], image_column)) # <<>>
                      THEN UNCHANGED <<rows, visited>>
                      ELSE \E went \in BOOLEAN, image_url \in {<<>>, <<"y">>} :
                              /\ ~went => image_url = <<>>
                              /\ visited' = IF went THEN visited \cup {i} ELSE visited
                              /\ rows' = [rows EXCEPT ![i] = Put(@, image_column, image_url)]
    /\ UNCHANGED output_file
    /\ ImageFrame

\* lines 147-157: context.browser.close(), whose exception leaves the
\* function, then the header and, for each row, the cells of the header's
\* columns
add_images_to_csv_write ==
    /\ ipc = "write"
    /\ \/ /\ ipc' = "done"
          /\ output_file' =
                <<[fieldnames |-> fieldnames,
                   rows |-> [i \in DOMAIN rows |->
                               [key \in Range(fieldnames) |-> Get(rows[i], key)]]]>>
       \/ /\ ipc' = "aborted"
          /\ UNCHANGED output_file
    /\ UNCHANGED <<rows, row_idx, visited>>
    /\ ImageFrame

InitImages ==
    /\ ipc = "read"
    /\ fieldnames \in ImageFieldnames
    /\ input_rows \in SeqsUpTo(ImageRows(fieldnames), MaxImageRows)
    /\ rows = <<>>
    /\ row_idx = 0
    /\ visited = {}
    /\ output_file = <<>>
    /\ ScanIdle
    /\ LinksIdle
    /\ PaginateIdle
    /\ PriceIdle
    /\ CrawlIdle
    /\ NormIdle
    /\ ExtractIdle
    /\ TrendIdle

NextImages ==
    \/ add_images_to_csv_read
    \/ add_images_to_csv_row
    \/ add_images_to_csv_write

SpecImages == InitImages /\ [][NextImages]_vars

(***************************************************************************)
(* add_images_to_csv: properties                                           *)
(***************************************************************************)
\* the output has the columns and the rows of the input, in their order, and
\* no cell but an image cell differs
ImageFrameKept ==
    LET written == output_file[1] IN
    /\ written.fieldnames = fieldnames
    /\ Len(written.rows) = Len(input_rows)
    /\ \A i \in DOMAIN input_rows :
          /\ DOMAIN written.rows[i] = Range(fieldnames)
          /\ \A col \in Range(fieldnames) \ {image_column} :
                written.rows[i][col] = input_rows[i][col]

\* the rows of Passed are not visited and are written as they were read
RowsPassed(Passed) ==
    /\ visited \cap Passed = {}
    /\ output_file # <<>> => \A i \in Passed : output_file[1].rows[i] = input_rows[i]

\* C38, as stated: the output keeps columns, rows and every cell but the
\* image cells, and a row whose image cell is not empty or whose URL is
\* empty is not visited and is written unchanged
C38_PureRewriteNonEmpty ==
    /\ output_file # <<>> => ImageFrameKept
    /\ RowsPassed({i \in DOMAIN input_rows :
                      \/ Get(input_rows[i], image_column) # <<>>
                      \/ Get(input_rows[i], url_column) = <<>>})

\* C38, amended: the same, for a row whose image cell holds more than white
\* space or whose URL holds nothing but white space
C38_PureRewrite ==
    /\ output_file # <<>> => ImageFrameKept
    /\ RowsPassed({i \in DOMAIN input_rows :
                      \/ strip(Get(input_rows[i], image_column)) # <<>>
                      \/ strip(Get(input_rows[i], url_column)) = <<>>})

\* the output is written after a row with an image was passed and another
\* row was visited and got its image
C38_Witness ==
    /\ ipc = "done"
    /\ \E i \in DOMAIN input_rows : Get(input_rows[i], image_column) = <<"x">>
    /\ \E i \in visited : Get(output_file[1].rows[i], image_column) = <<"y">>

====
